---- MODULE Spec2Model ----
(***************************************************************************)
(* Lifecycle orchestration of mcp-manager backends: the configuration     *)
(* list (AppState.servers), the cached tools (AppState.connections), the  *)
(* Connection Registry (McpConnections.clients) and the commands that     *)
(* drive them: connect_server, disconnect_server, reconnect_on_startup    *)
(* and start_oauth_flow.  Every command is split at its lock sections and *)
(* suspension points, so that concurrent invocations interleave as the    *)
(* async runtime lets them.                                               *)
(***************************************************************************)
EXTENDS Integers, Sequences, FiniteSets, TLC

VARIABLES servers, connections, clients, oauth_store, task, startup, calls, reply,
          tool_discovery_enabled, stats, req, reqs, resp, tool_hashes, streams,
          clock, resolving, building, tport, sends, locks, parsing

\* What the lifecycle commands work on.
lifecycle_vars ==
    <<servers, connections, clients, oauth_store, task, startup, calls, reply>>

\* What only the gateway and its notification channel write.
gateway_vars == <<tool_discovery_enabled, stats, req, reqs, tool_hashes, streams>>

\* What the token resolution, the client construction and the transports
\* read and write.
mcp_vars == <<clock, resolving, building, tport, sends, locks, parsing>>

vars == <<lifecycle_vars, gateway_vars, resp, mcp_vars>>

\* ------------------------------------------------------------------ bounds
\* Number of commands the operator / UI issues in one run.
MaxCalls == 2

\* Width of the unsigned 64-bit seconds counters, scaled to 30 bits.
U64 == 1073741824

\* Number of requests sent over one transport.
MaxIds == 2

\* Number of diagnostic lines a child writes.
MaxStderr == 23

\* Longest ordinary lifetime (seconds) of an access token in the store.
MaxExpiry == 165
\* Lines of an event-stream response body.
MaxLines == 5
\* Calls recorded on top of the loaded statistics.
MaxRecorded == 2
\* Chunks the bytes of an event stream arrive in.
MaxChunks == 3

\* ------------------------------------------------------------ value spaces
\* Option<T>: None is the empty sequence, Some(x) the one-element sequence.
None == <<>>
Some(x) == <<x>>

\* Configured backends, in the order of AppState.servers.
ServerOrder == <<"p", "h">>
Ids == {ServerOrder[i] : i \in DOMAIN ServerOrder}
\* Ids a command may be invoked with: the configured ones and an unknown one.
CallIds == Ids \cup {"x"}
\* Concurrent command invocations.
Tasks == {"t1", "t2"}

\* ServerTransport of each configured backend.
TransportOf(id) == IF id = "p" THEN "Stdio" ELSE "Http"
\* Display name of each configured backend.
NameOf(id) == IF id = "p" THEN "Proc" ELSE "Remote"

\* ServerStatus
Status == {"Connected", "Connecting", "Disconnected", "Error"}

\* The configurations a run starts from: every backend is seen with a
\* usable, an absent and an empty command / url.
Configs ==
    { [id \in Ids |-> IF TransportOf(id) = "Stdio" THEN c[1] ELSE c[2]] :
        c \in { <<Some("cmd"), Some("http://h/mcp")>>,
                <<None, Some("")>>,
                <<Some(""), None>> } }

\* inputSchema of a tool: its properties in order, and the required ones.
PingSchema ==
    [properties |-> <<[name |-> "host", type |-> Some("string")],
                      [name |-> "count", type |-> None]>>,
     required |-> {"host"}]
ProbeSchema ==
    [properties |-> <<[name |-> "url", type |-> Some("string")]>>, required |-> {}]

\* What each backend answers to tools/list (McpToolDef: name, description,
\* inputSchema).  Both backends have a tool named "ping".
ToolAnswers(transport) ==
    IF transport = "Stdio"
    THEN {<<[name |-> "ping", description |-> Some("Ping a HOST"),
             input_schema |-> Some(PingSchema)],
            [name |-> "echo", description |-> None, input_schema |-> None]>>}
    ELSE {<<[name |-> "ping", description |-> Some("probe url"),
             input_schema |-> Some(ProbeSchema)]>>}

\* chrono_now(): the current time, as the decimal string of the seconds
\* since the epoch; the model keeps one value for "a time was taken".
chrono_now == "secs"

\* --------------------------------------------------------------- helpers
\* Variant: only Connected counts as active.
IsActive_ConnectedOnly(status) == status = "Connected"

\* connect_server / reconnect_on_startup: the duplicate-connection test.
IsActive(status) == status \in {"Connected", "Connecting"}

\* ServerConnectConfig extracted under the configuration lock.
ServerConnectConfig(srv) ==
    [transport |-> srv.transport, command |-> srv.command, url |-> srv.url]

\* The value of the Option the connect path unwraps for the transport.
Target(cfg) == IF cfg.transport = "Stdio" THEN cfg.command ELSE cfg.url

\* Errors a handshake (transport construction, initialize, initialized,
\* tools/list) can end with.  Spawning the empty command and posting to the
\* empty URL fail in the transport; 401 exists only over HTTP.
HandshakeErrors(cfg) ==
    IF Target(cfg) = Some("") THEN {"Transport"}
    ELSE IF cfg.transport = "Http" THEN {"Transport", "Protocol", "AuthRequired"}
    ELSE {"Transport", "Protocol"}

\* Successful handshakes: the tools the backend lists.
HandshakeTools(cfg) ==
    IF Target(cfg) = Some("") THEN {} ELSE ToolAnswers(cfg.transport)

\* Variant: the client is returned without the tools it discovered.
McpClient_NoTools(cfg, tools) ==
    [transport |-> cfg.transport, tools |-> <<>>,
     proc |-> IF cfg.transport = "Stdio" THEN "running" ELSE "na"]

\* McpClient returned by connect_stdio / connect_http for attempt att.
McpClient(cfg, tools) ==
    [transport |-> cfg.transport, tools |-> tools,
     proc |-> IF cfg.transport = "Stdio" THEN "running" ELSE "na"]

\* Conversion of discovered tools to McpTool (tagged with id and name).
McpTools(tools, id, server_name) ==
    [i \in DOMAIN tools |->
        [name |-> tools[i].name, description |-> tools[i].description,
         input_schema |-> tools[i].input_schema,
         server_id |-> id, server_name |-> server_name]]

\* HashMap::new, insert, remove.
EmptyMap == [x \in {} |-> None]
\* Variant: remove leaves the entry in place.
MapRemove_Keep(m, k) == m
MapInsert(m, k, v) == [x \in (DOMAIN m) \cup {k} |-> IF x = k THEN v ELSE m[x]]
MapRemove(m, k) == [x \in (DOMAIN m) \ {k} |-> m[x]]

\* Variant: every backend is marked.
mark_server_error_All(srvs, id) ==
    [i \in DOMAIN srvs |-> [srvs[i] EXCEPT !.status = "Error"]]

\* Variant: the status is left as it was.
mark_server_error_Skip(srvs, id) == srvs

\* mark_server_error: the status written under the configuration lock.
mark_server_error(srvs, id) ==
    IF id \in DOMAIN srvs THEN [srvs EXCEPT ![id].status = "Error"] ELSE srvs

\* finalize_connection, configuration-lock section: status, time, tools.
FinalizeState(srvs, id, now) ==
    IF id \in DOMAIN srvs
    THEN [srvs EXCEPT ![id].status = "Connected", ![id].last_connected = Some(now)]
    ELSE srvs

\* Variant: the status is left as it is.
OAuthFinalizeState_Skip(srvs, id) == srvs

\* start_oauth_flow, configuration-lock section after a successful reconnect.
OAuthFinalizeState(srvs, id) ==
    IF id \in DOMAIN srvs THEN [srvs EXCEPT ![id].status = "Connected"] ELSE srvs

\* Variant: every failure raises the generic error event.
ConnectErrorSignal_Generic(e) == "server-error"

\* Events raised by connect_server for a failed attempt.
ConnectErrorSignal(e) == IF e = "AuthRequired" THEN "oauth-required" ELSE "server-error"

\* ---------------------------------------------------------------- tasks
IdleTask ==
    [op |-> "none", id |-> "x", pc |-> "idle", cfg |-> None,
     client |-> None, shut |-> FALSE]

InProgress(t) == task[t].pc # "idle"

\* The entry of servers_to_reconnect the loop is working on.
Cur == startup.to_reconnect[startup.i]

\* A command is issued in the first free slot.
CanCall(t) ==
    /\ ~InProgress(t)
    /\ calls < MaxCalls
    /\ \A u \in Tasks : (u # t /\ ~InProgress(u)) => t = "t1"

NewTask(op, id) == [IdleTask EXCEPT !.op = op, !.id = id]

\* What a command hands back when it returns in this step: its Result and
\* the event it raised for the failure, if any.
Reply(t, op, id, result, signal) ==
    Some([t |-> t, op |-> op, id |-> id, result |-> result, signal |-> signal])

\* The command in slot t returns: its locals are dropped.
Return(t, result, signal) ==
    /\ task' = [task EXCEPT ![t] = IdleTask]
    /\ reply' = Reply(t, task[t].op, task[t].id, result, signal)

\* The command issued in slot t on id returns from its first lock section
\* with an error, having changed nothing.
Reject(t, op, id, result) ==
    /\ reply' = Reply(t, op, id, result, "none")
    /\ UNCHANGED <<task, startup>>

\* ---------------------------------------------------------------- gateway
\* Number of POST requests the gateway receives in one run.
MaxReqs == 2

\* Requests the gateway serves at the same time.
Requests == {"r1", "r2"}

\* MAX_RECENT_CALLS
MAX_RECENT_CALLS == 200

\* The `client` query parameter of a request ("" when absent); it is given
\* on the posts that can reach a backend call.
ClientIds == {"", "cli"}

\* params of a tools/call on a per-backend path: absent, without a name,
\* naming a tool.
BackendParams ==
    {None, Some([name |-> None])}
      \cup {Some([name |-> Some(n)]) : n \in {"ping", "nosuch"}}

\* arguments of the discovery meta-tools.
NoArguments == [server_id |-> None, tool_name |-> None, query |-> None]
CallToolArguments ==
    {[NoArguments EXCEPT !.server_id = sid, !.tool_name = tn] :
        sid \in {None} \cup {Some(i) : i \in CallIds},
        tn \in {None, Some("ping"), Some("nosuch")}}

\* params of a tools/call on the discovery path.
DiscoveryParams ==
    {None, Some([name |-> None, arguments |-> NoArguments])}
      \cup {Some([name |-> Some(n), arguments |-> NoArguments]) :
              n \in {"list_servers", "discover_tools", "nosuch"}}
      \cup {Some([name |-> Some("discover_tools"),
                  arguments |-> [NoArguments EXCEPT !.query = Some(q)]]) :
              q \in {"", "ping"}}
      \cup {Some([name |-> Some("call_tool"), arguments |-> a]) :
              a \in CallToolArguments}

Methods == {"initialize", "tools/list", "tools/call", "resources/list"}

\* POST bodies and headers the gateway is sent on /mcp/{server_id}.
BackendPosts ==
    {q \in [path : {"server"}, server_id : CallIds, origin : {"local", "foreign"},
            id : {None, Some(1)}, method : Methods, params : BackendParams,
            client : ClientIds] :
       /\ q.method # "tools/call" => q.params = None
       /\ q.client # "" => (q.params # None /\ q.params[1].name # None)}

\* POST bodies the gateway is sent on /mcp/discovery.
DiscoveryPosts ==
    {q \in [path : {"discovery"}, server_id : {"x"}, origin : {"local"},
            id : {None, Some(1)}, method : Methods, params : DiscoveryParams,
            client : ClientIds] :
       /\ q.method # "tools/call" => q.params = None
       /\ q.client # "" => (/\ q.params # None
                            /\ q.params[1].name = Some("call_tool")
                            /\ q.params[1].arguments.tool_name # None)}

\* What McpClient::call_tool can return: a CallToolResult (content, isError)
\* or an AppError of the transport (send failure, timeout) or the protocol.
TextContent(text) == [type |-> "text", text |-> Some(text)]
ImageContent == [type |-> "image", text |-> None]
CallResults ==
    {[ok |-> TRUE, content |-> <<TextContent("pong")>>, is_error |-> None, error |-> ""],
     [ok |-> TRUE, content |-> <<TextContent("pong")>>, is_error |-> Some(FALSE), error |-> ""],
     [ok |-> TRUE, content |-> <<TextContent("bad host")>>, is_error |-> Some(TRUE), error |-> ""],
     [ok |-> TRUE, content |-> <<ImageContent>>, is_error |-> Some(TRUE), error |-> ""],
     [ok |-> FALSE, content |-> <<>>, is_error |-> None,
      error |-> "Transport error: Timeout waiting for response to tools/call"],
     [ok |-> FALSE, content |-> <<>>, is_error |-> None,
      error |-> "MCP protocol error: -32000: failed"]}

\* A client whose child has exited cannot be written to any more.
CallOutcomes(client) ==
    IF client.proc = "exited"
    THEN {c \in CallResults : ~c.ok /\ c.error # "MCP protocol error: -32000: failed"}
    ELSE CallResults

\* Elapsed milliseconds measured around a backend call.
Durations == {3}

\* unix_now(): seconds since the epoch, kept as one value.
unix_now == "secs"

IdleRequest ==
    [pc |-> "idle", post |-> None, server_name |-> "", server_id |-> "x",
     tool |-> "", client |-> None]

\* make_error_response: a JSON-RPC error envelope.  A message is the list of
\* the pieces the format string is filled with.
make_error_response(id, code, message) ==
    [jsonrpc |-> "2.0", id |-> id, kind |-> "error",
     error |-> [code |-> code, message |-> message], result |-> None]

\* A JSON-RPC result envelope.
make_result_response(id, result) ==
    [jsonrpc |-> "2.0", id |-> id, kind |-> "result",
     error |-> None, result |-> Some(result)]

\* ServerStats::default()
DefaultServerStats ==
    [total_calls |-> 0, errors |-> 0, total_duration_ms |-> 0,
     tools |-> EmptyMap, clients |-> EmptyMap, recent_calls |-> <<>>]

\* ToolStats::default()
DefaultToolStats == [total_calls |-> 0, errors |-> 0, total_duration_ms |-> 0]

\* HashMap entry(k).or_default() / or_insert(v)
EntryOr(m, k, v) == IF k \in DOMAIN m THEN m[k] ELSE v

\* Variant: the newest entries over the cap are dropped.
push_call_KeepOldest(recent_calls, entry) ==
    LET pushed == Append(recent_calls, entry) IN
    IF Len(pushed) > MAX_RECENT_CALLS THEN SubSeq(pushed, 1, MAX_RECENT_CALLS)
    ELSE pushed

\* ServerStats::push_call: append, then drop the oldest entries over the cap.
push_call(recent_calls, entry) ==
    LET pushed == Append(recent_calls, entry)
        excess == Len(pushed) - MAX_RECENT_CALLS
    IN IF Len(pushed) > MAX_RECENT_CALLS
       THEN SubSeq(pushed, excess + 1, Len(pushed))
       ELSE pushed

\* Variant: the call is not counted.
record_tool_stats_Skip(store, server_id, tool_name, client_id, duration_ms, is_error) ==
    store

\* Variant: only the aggregates of the server are updated.
record_tool_stats_ServerOnly(store, server_id, tool_name, client_id, duration_ms, is_error) ==
    LET old == EntryOr(store, server_id, DefaultServerStats) IN
    MapInsert(store, server_id,
              [old EXCEPT !.total_calls = @ + 1,
                          !.total_duration_ms = @ + duration_ms])

\* record_tool_stats: server, tool and client aggregates, recent-call log.
record_tool_stats(store, server_id, tool_name, client_id, duration_ms, is_error) ==
    LET old == EntryOr(store, server_id, DefaultServerStats)
        told == EntryOr(old.tools, tool_name, DefaultToolStats)
        e == IF is_error THEN 1 ELSE 0
        tnew == [total_calls |-> told.total_calls + 1,
                 errors |-> told.errors + e,
                 total_duration_ms |-> told.total_duration_ms + duration_ms]
        new == [total_calls |-> old.total_calls + 1,
                errors |-> old.errors + e,
                total_duration_ms |-> old.total_duration_ms + duration_ms,
                tools |-> MapInsert(old.tools, tool_name, tnew),
                clients |-> IF client_id # ""
                            THEN MapInsert(old.clients, client_id,
                                           EntryOr(old.clients, client_id, 0) + 1)
                            ELSE old.clients,
                recent_calls |->
                    push_call(old.recent_calls,
                              [tool |-> tool_name, client |-> client_id,
                               duration_ms |-> duration_ms, is_error |-> is_error,
                               timestamp |-> unix_now])]
    IN MapInsert(store, server_id, new)

\* ------------------------------------------------------------------ Init
\* The holder of each lock: the Connection Registry (McpConnections), the
\* configuration (AppState), the OAuth store, the statistics.  No holder.
NoLocks == [registry |-> "", config |-> "", oauth |-> "", stats |-> ""]

\* No event-stream text being read.
NoParse == [pc |-> "none", body |-> <<>>, out |-> None]

\* Callers of send_request on one transport.
Senders == {"c1", "c2"}

\* No transport made yet.  A transport holds the id counter, the pending
\* table (the ids whose oneshot sender it keeps), the retained diagnostic
\* lines, the state of the input channel (its sender, the lines queued in
\* it, its writer task), the reader task, the child or the event stream,
\* and who holds the transport.
NoTransport ==
    [kind |-> "none", next_id |-> 1, pending |-> {}, recent_stderr |-> <<>>,
     stdin_tx |-> "none", queued |-> 0, writer |-> "none", reader |-> "none",
     peer |-> "none", stderr_seen |-> 0, owner |-> "none", cleanup |-> {}]

\* send_request, not running.  rx is the receiving end of the oneshot
\* channel of the request, got the id of the response it received.
IdleSend == [pc |-> "idle", id |-> 0, rx |-> "none", got |-> 0, result |-> None]

\* No McpClient under construction.
NoClient ==
    [pc |-> "none", err |-> None, sent |-> <<>>, server_capabilities |-> None,
     server_info |-> None, tools |-> <<>>]

\* resolve_access_token, not running.
IdleResolve == [pc |-> "idle", id |-> "", token |-> None, refreshes |-> 0]

Init ==
    /\ \E c \in Configs, st \in [Ids -> Status] :
          servers = [id \in Ids |->
                        [transport |-> TransportOf(id), name |-> NameOf(id),
                         command |-> IF TransportOf(id) = "Stdio" THEN c[id] ELSE None,
                         url |-> IF TransportOf(id) = "Http" THEN c[id] ELSE None,
                         status |-> st[id], last_connected |-> None]]
    /\ connections = EmptyMap
    /\ clients = EmptyMap
    /\ oauth_store = EmptyMap
    /\ task = [t \in Tasks |-> IdleTask]
    /\ startup = [pc |-> "start", to_reconnect |-> <<>>, i |-> 0, client |-> None]
    /\ calls = 0
    /\ reply = None
    /\ tool_discovery_enabled = FALSE
    /\ stats = EmptyMap
    /\ req = [r \in Requests |-> IdleRequest]
    /\ reqs = 0
    /\ resp = None
    /\ tool_hashes = EmptyMap
    /\ streams = [tail |-> 0, rx |-> EmptyMap]
    /\ clock = 1000
    /\ resolving = IdleResolve
    /\ building = NoClient
    /\ tport = NoTransport
    /\ sends = [c \in Senders |-> IdleSend]
    /\ locks = NoLocks
    /\ parsing = NoParse

\* -------------------------------------------------------- connect_server
\* Lock section 1: lookup, duplicate-connection test, status := Connecting.
connect_server_begin(t, id) ==
    /\ CanCall(t)
    /\ calls' = calls + 1
    /\ IF id \notin DOMAIN servers
       THEN /\ Reject(t, "connect", id, "ServerNotFound")
            /\ UNCHANGED servers
       ELSE IF IsActive(servers[id].status)
       THEN /\ Reject(t, "connect", id, "AlreadyConnected")
            /\ UNCHANGED servers
       ELSE /\ servers' = [servers EXCEPT ![id].status = "Connecting"]
            /\ reply' = None
            /\ UNCHANGED startup
            /\ task' = [task EXCEPT ![t] =
                   [NewTask("connect", id) EXCEPT
                       !.pc = "resolve",
                       !.cfg = Some(ServerConnectConfig(servers[id]))]]
    /\ UNCHANGED <<connections, clients, oauth_store>>
    /\ resp' = None
    /\ UNCHANGED gateway_vars
    /\ UNCHANGED mcp_vars

\* Token resolution, then the command / url is unwrapped with `?`.
connect_server_resolve(t) ==
    /\ task[t].op = "connect" /\ task[t].pc = "resolve"
    /\ LET cfg == task[t].cfg[1] IN
       IF Target(cfg) = None
       THEN Return(t, "ConnectionFailed", "none")
       ELSE /\ task' = [task EXCEPT ![t].pc = "handshake"]
            /\ reply' = None
    /\ UNCHANGED <<servers, connections, clients, oauth_store, startup, calls>>
    /\ resp' = None
    /\ UNCHANGED gateway_vars
    /\ UNCHANGED mcp_vars

\* McpClient::connect_* returned Ok(client).
connect_server_connected(t) ==
    /\ task[t].op = "connect" /\ task[t].pc = "handshake"
    /\ \E tools \in HandshakeTools(task[t].cfg[1]) :
          task' = [task EXCEPT ![t].pc = "finalize_state",
                      ![t].client = Some(McpClient(task[t].cfg[1], tools))]
    /\ reply' = None
    /\ UNCHANGED <<servers, connections, clients, oauth_store, startup, calls>>
    /\ resp' = None
    /\ UNCHANGED gateway_vars
    /\ UNCHANGED mcp_vars

\* McpClient::connect_* returned Err(e): mark_server_error, event, Err.
connect_server_failed(t) ==
    /\ task[t].op = "connect" /\ task[t].pc = "handshake"
    /\ \E e \in HandshakeErrors(task[t].cfg[1]) :
          /\ servers' = mark_server_error(servers, task[t].id)
          /\ Return(t, e, ConnectErrorSignal(e))
    /\ UNCHANGED <<connections, clients, oauth_store, startup, calls>>
    /\ resp' = None
    /\ UNCHANGED gateway_vars
    /\ UNCHANGED mcp_vars

\* finalize_connection, configuration lock: tools, status, last_connected.
finalize_connection_state(t) ==
    /\ task[t].op = "connect" /\ task[t].pc = "finalize_state"
    /\ LET id == task[t].id
           server_name == IF id \in DOMAIN servers THEN servers[id].name ELSE ""
       IN   /\ servers' = FinalizeState(servers, id, chrono_now)
            /\ connections' = MapInsert(connections, id,
                                  McpTools(task[t].client[1].tools, id, server_name))
    /\ task' = [task EXCEPT ![t].pc = "finalize_conns"]
    /\ reply' = None
    /\ UNCHANGED <<clients, oauth_store, startup, calls>>
    /\ resp' = None
    /\ UNCHANGED gateway_vars
    /\ UNCHANGED mcp_vars

\* finalize_connection, Registry lock: insert the live client; Ok(()).
finalize_connection_conns(t) ==
    /\ task[t].op = "connect" /\ task[t].pc = "finalize_conns"
    /\ clients' = MapInsert(clients, task[t].id, task[t].client[1])
    /\ Return(t, "Ok", "none")
    /\ UNCHANGED <<servers, connections, oauth_store, startup, calls>>
    /\ resp' = None
    /\ UNCHANGED gateway_vars
    /\ UNCHANGED mcp_vars

\* ----------------------------------------------------- disconnect_server
\* Registry lock: remove the client and shut it down.
disconnect_server_begin(t, id) ==
    /\ CanCall(t)
    /\ calls' = calls + 1
    /\ clients' = MapRemove(clients, id)
    /\ task' = [task EXCEPT ![t] = [NewTask("disconnect", id) EXCEPT
                                !.pc = "dc_state", !.shut = (id \in DOMAIN clients)]]
    /\ reply' = None
    /\ UNCHANGED <<servers, connections, oauth_store, startup>>
    /\ resp' = None
    /\ UNCHANGED gateway_vars
    /\ UNCHANGED mcp_vars

\* Configuration lock: status := Disconnected, cached tools removed; Ok(()).
disconnect_server_state(t) ==
    /\ task[t].op = "disconnect" /\ task[t].pc = "dc_state"
    /\ LET id == task[t].id IN
       IF id \notin DOMAIN servers
       THEN /\ Return(t, "ServerNotFound", "none")
            /\ UNCHANGED <<servers, connections>>
       ELSE /\ servers' = [servers EXCEPT ![id].status = "Disconnected"]
            /\ connections' = MapRemove(connections, id)
            /\ Return(t, "Ok", "none")
    /\ UNCHANGED <<clients, oauth_store, startup, calls>>
    /\ resp' = None
    /\ UNCHANGED gateway_vars
    /\ UNCHANGED mcp_vars

\* ------------------------------------------------------ start_oauth_flow
\* Step 1: read the server URL under the configuration lock.
start_oauth_flow_begin(t, id) ==
    /\ CanCall(t)
    /\ calls' = calls + 1
    /\ IF id \notin DOMAIN servers
       THEN Reject(t, "oauth", id, "ServerNotFound")
       ELSE IF servers[id].transport # "Http" \/ servers[id].url = None
       THEN Reject(t, "oauth", id, "OAuth")
       ELSE /\ task' = [task EXCEPT ![t] = [NewTask("oauth", id) EXCEPT !.pc = "authorize"]]
            /\ reply' = None
            /\ UNCHANGED startup
    /\ UNCHANGED <<servers, connections, clients, oauth_store>>
    /\ resp' = None
    /\ UNCHANGED gateway_vars
    /\ UNCHANGED mcp_vars

\* Steps 2-9 fail (discovery, registration, browser, no callback within the
\* time allowed): Err(OAuth), nothing stored.
start_oauth_flow_rejected(t) ==
    /\ task[t].op = "oauth" /\ task[t].pc = "authorize"
    /\ Return(t, "OAuth", "none")
    /\ UNCHANGED <<servers, connections, clients, oauth_store, startup, calls>>
    /\ resp' = None
    /\ UNCHANGED gateway_vars
    /\ UNCHANGED mcp_vars

\* generate_state_nonce: the value the authorization URL of a flow carries.
state_nonce == "nonce"

\* The state value a callback can carry.
CallbackStates == {"nonce", "forged"}

\* Access tokens the authorization server issues.
Tokens == {"tok1", "tok2"}

\* Variant: the state of the callback is not compared.
StateMatches_Any(state) == TRUE

\* The state-nonce test of the callback.
StateMatches(state) == state = state_nonce

\* Step 9 and the state-nonce test: the callback arrives; a state other than
\* the nonce ends the flow with Err(OAuth), the nonce starts the code
\* exchange.
start_oauth_flow_callback(t, state) ==
    /\ task[t].op = "oauth" /\ task[t].pc = "authorize"
    /\ IF ~StateMatches(state)
       THEN Return(t, "OAuth state mismatch", "none")
       ELSE /\ task' = [task EXCEPT ![t].pc = "exchange"]
            /\ reply' = None
    /\ UNCHANGED <<servers, connections, clients, oauth_store, startup, calls>>
    /\ resp' = None
    /\ UNCHANGED gateway_vars
    /\ UNCHANGED mcp_vars

\* Step 10 fails: exchange_code returned Err(OAuth), nothing stored.
start_oauth_flow_exchange_failed(t) ==
    /\ task[t].op = "oauth" /\ task[t].pc = "exchange"
    /\ Return(t, "OAuth", "none")
    /\ UNCHANGED <<servers, connections, clients, oauth_store, startup, calls>>
    /\ resp' = None
    /\ UNCHANGED gateway_vars
    /\ UNCHANGED mcp_vars

\* Steps 10-11 succeed: the tokens are stored in the OAuthState of the id.
start_oauth_flow_authorized(t, tokens) ==
    /\ task[t].op = "oauth" /\ task[t].pc = "exchange"
    /\ oauth_store' = MapInsert(oauth_store, task[t].id, [tokens |-> Some(tokens)])
    /\ task' = [task EXCEPT ![t].pc = "oauth_reconnect"]
    /\ reply' = None
    /\ UNCHANGED <<servers, connections, clients, startup, calls>>
    /\ resp' = None
    /\ UNCHANGED gateway_vars
    /\ UNCHANGED mcp_vars

\* Step 12, configuration lock: status := Connecting, config re-read.
start_oauth_flow_reconnect(t) ==
    /\ task[t].op = "oauth" /\ task[t].pc = "oauth_reconnect"
    /\ LET id == task[t].id IN
       IF id \notin DOMAIN servers
       THEN /\ Return(t, "ServerNotFound", "none")
            /\ UNCHANGED servers
       ELSE /\ servers' = [servers EXCEPT ![id].status = "Connecting"]
            /\ reply' = None
            /\ task' = [task EXCEPT ![t].pc = "oauth_handshake",
                           ![t].cfg = Some([transport |-> "Http", command |-> None,
                                url |-> IF servers[id].url = None THEN Some("")
                                        ELSE servers[id].url])]
    /\ UNCHANGED <<connections, clients, oauth_store, startup, calls>>
    /\ resp' = None
    /\ UNCHANGED gateway_vars
    /\ UNCHANGED mcp_vars

\* connect_http with the new access token returned Ok(client).
start_oauth_flow_connected(t) ==
    /\ task[t].op = "oauth" /\ task[t].pc = "oauth_handshake"
    /\ \E tools \in HandshakeTools(task[t].cfg[1]) :
          task' = [task EXCEPT ![t].pc = "oauth_state",
                      ![t].client = Some(McpClient(task[t].cfg[1], tools))]
    /\ reply' = None
    /\ UNCHANGED <<servers, connections, clients, oauth_store, startup, calls>>
    /\ resp' = None
    /\ UNCHANGED gateway_vars
    /\ UNCHANGED mcp_vars

\* connect_http returned Err(e): status := Error, Err(e).
start_oauth_flow_failed(t) ==
    /\ task[t].op = "oauth" /\ task[t].pc = "oauth_handshake"
    /\ \E e \in HandshakeErrors(task[t].cfg[1]) :
          /\ servers' = mark_server_error(servers, task[t].id)
          /\ Return(t, e, "none")
    /\ UNCHANGED <<connections, clients, oauth_store, startup, calls>>
    /\ resp' = None
    /\ UNCHANGED gateway_vars
    /\ UNCHANGED mcp_vars

\* Configuration lock: status := Connected, tools cached.
start_oauth_flow_state(t) ==
    /\ task[t].op = "oauth" /\ task[t].pc = "oauth_state"
    /\ LET id == task[t].id
           server_name == IF id \in DOMAIN servers THEN servers[id].name ELSE ""
       IN /\ servers' = OAuthFinalizeState(servers, id)
          /\ connections' = MapInsert(connections, id,
                                McpTools(task[t].client[1].tools, id, server_name))
    /\ task' = [task EXCEPT ![t].pc = "oauth_conns"]
    /\ reply' = None
    /\ UNCHANGED <<clients, oauth_store, startup, calls>>
    /\ resp' = None
    /\ UNCHANGED gateway_vars
    /\ UNCHANGED mcp_vars

\* Registry lock: insert the live client; Ok(()).
start_oauth_flow_conns(t) ==
    /\ task[t].op = "oauth" /\ task[t].pc = "oauth_conns"
    /\ clients' = MapInsert(clients, task[t].id, task[t].client[1])
    /\ Return(t, "Ok", "none")
    /\ UNCHANGED <<servers, connections, oauth_store, startup, calls>>
    /\ resp' = None
    /\ UNCHANGED gateway_vars
    /\ UNCHANGED mcp_vars

\* -------------------------------------------------- reconnect_on_startup
\* Variant: every configured backend is reconnected.
ToReconnect_All(srvs) ==
    [i \in DOMAIN ServerOrder |->
        [id |-> ServerOrder[i], cfg |-> ServerConnectConfig(srvs[ServerOrder[i]])]]

\* The backends to reconnect, in configuration order, with their config.
ToReconnect(srvs) ==
    LET F[i \in 0..Len(ServerOrder)] ==
          IF i = 0 THEN <<>>
          ELSE IF IsActive(srvs[ServerOrder[i]].status)
               THEN Append(F[i - 1], [id |-> ServerOrder[i],
                                      cfg |-> ServerConnectConfig(srvs[ServerOrder[i]])])
               ELSE F[i - 1]
    IN F[Len(ServerOrder)]

\* The routine moves on to the next entry of servers_to_reconnect, or
\* returns when there is none.
Advance(rec) ==
    [rec EXCEPT !.pc = IF rec.i = Len(rec.to_reconnect) THEN "done" ELSE "next",
                !.client = None]

\* First lock section: collect the servers to reconnect, reset every status.
reconnect_on_startup_reset ==
    /\ startup.pc = "start"
    /\ servers' = [id \in DOMAIN servers |-> [servers[id] EXCEPT !.status = "Disconnected"]]
    /\ startup' = Advance([startup EXCEPT !.to_reconnect = ToReconnect(servers)])
    /\ reply' = None
    /\ UNCHANGED <<connections, clients, oauth_store, task, calls>>
    /\ resp' = None
    /\ UNCHANGED gateway_vars
    /\ UNCHANGED mcp_vars

\* Loop head: skip a backend that is already Connecting/Connected, else
\* status := Connecting.
reconnect_on_startup_next ==
    /\ startup.pc = "next"
    /\ LET id == startup.to_reconnect[startup.i + 1].id
           rest == [startup EXCEPT !.i = @ + 1]
       IN IF id \in DOMAIN servers /\ IsActive(servers[id].status)
          THEN /\ startup' = Advance(rest)
               /\ UNCHANGED servers
          ELSE /\ servers' = IF id \in DOMAIN servers
                             THEN [servers EXCEPT ![id].status = "Connecting"]
                             ELSE servers
               /\ startup' = [rest EXCEPT !.pc = "resolve"]
    /\ reply' = None
    /\ UNCHANGED <<connections, clients, oauth_store, task, calls>>
    /\ resp' = None
    /\ UNCHANGED gateway_vars
    /\ UNCHANGED mcp_vars

\* Token resolution, then `let Some(command/url) = ... else continue`.
reconnect_on_startup_resolve ==
    /\ startup.pc = "resolve"
    /\ startup' = IF Target(Cur.cfg) = None
                  THEN Advance(startup)
                  ELSE [startup EXCEPT !.pc = "handshake"]
    /\ reply' = None
    /\ UNCHANGED <<servers, connections, clients, oauth_store, task, calls>>
    /\ resp' = None
    /\ UNCHANGED gateway_vars
    /\ UNCHANGED mcp_vars

\* McpClient::connect_* returned Ok(client).
reconnect_on_startup_connected ==
    /\ startup.pc = "handshake"
    /\ \E tools \in HandshakeTools(Cur.cfg) :
          startup' = [startup EXCEPT !.pc = "finalize_state",
                         !.client = Some(McpClient(Cur.cfg, tools))]
    /\ reply' = None
    /\ UNCHANGED <<servers, connections, clients, oauth_store, task, calls>>
    /\ resp' = None
    /\ UNCHANGED gateway_vars
    /\ UNCHANGED mcp_vars

\* McpClient::connect_* returned Err(e): mark_server_error.
reconnect_on_startup_failed ==
    /\ startup.pc = "handshake"
    /\ \E e \in HandshakeErrors(Cur.cfg) :
          /\ servers' = mark_server_error(servers, Cur.id)
          /\ startup' = Advance(startup)
    /\ reply' = None
    /\ UNCHANGED <<connections, clients, oauth_store, task, calls>>
    /\ resp' = None
    /\ UNCHANGED gateway_vars
    /\ UNCHANGED mcp_vars

\* finalize_connection, configuration lock.
reconnect_on_startup_state ==
    /\ startup.pc = "finalize_state"
    /\ LET id == Cur.id
           server_name == IF id \in DOMAIN servers THEN servers[id].name ELSE ""
       IN   /\ servers' = FinalizeState(servers, id, chrono_now)
            /\ connections' = MapInsert(connections, id,
                                  McpTools(startup.client[1].tools, id, server_name))
    /\ startup' = [startup EXCEPT !.pc = "finalize_conns"]
    /\ reply' = None
    /\ UNCHANGED <<clients, oauth_store, task, calls>>
    /\ resp' = None
    /\ UNCHANGED gateway_vars
    /\ UNCHANGED mcp_vars

\* finalize_connection, Registry lock.
reconnect_on_startup_conns ==
    /\ startup.pc = "finalize_conns"
    /\ clients' = MapInsert(clients, Cur.id, startup.client[1])
    /\ startup' = Advance(startup)
    /\ reply' = None
    /\ UNCHANGED <<servers, connections, oauth_store, task, calls>>
    /\ resp' = None
    /\ UNCHANGED gateway_vars
    /\ UNCHANGED mcp_vars

\* ------------------------------------------------------- child processes
\* The child of a registered process client exits; the reader task receives
\* CommandEvent::Terminated, drops the pending requests, logs and ends.
child_exit(id) ==
    /\ id \in DOMAIN clients
    /\ clients[id].proc = "running"
    /\ clients' = [clients EXCEPT ![id].proc = "exited"]
    /\ reply' = None
    /\ UNCHANGED <<servers, connections, oauth_store, task, startup, calls>>
    /\ resp' = None
    /\ UNCHANGED gateway_vars
    /\ UNCHANGED mcp_vars

\* ------------------------------------------------- gateway: /mcp/{server_id}
\* validate_origin: requests of a foreign Origin are refused.
validate_origin(origin) == origin = "local"

\* accepted_response: 202 Accepted, no body.
accepted_response == [status |-> 202, body |-> None]

\* mcp_response: the JSON-RPC envelope, as JSON or as one SSE event, with a
\* success status.
mcp_response(envelope) == [status |-> 200, body |-> Some(envelope)]

\* A request is taken in the first free slot.
CanServe(r) ==
    /\ req[r].pc = "idle"
    /\ reqs < MaxReqs
    /\ \A u \in Requests : (u # r /\ req[u].pc = "idle") => r = "r1"

\* The handler of slot r answers the POST q with http.
Respond(r, q, http) ==
    /\ req' = [req EXCEPT ![r] = IdleRequest]
    /\ resp' = Some([r |-> r, path |-> q.path, server_id |-> q.server_id,
                    origin |-> q.origin, id |-> q.id,
                    status |-> http.status, body |-> http.body])

\* The handler of slot r goes on with the POST q at pc.
Continue(r, q, pc, server_id, server_name, tool) ==
    /\ req' = [req EXCEPT ![r] = [IdleRequest EXCEPT
                   !.pc = pc, !.post = Some(q), !.server_id = server_id,
                   !.server_name = server_name, !.tool = tool]]
    /\ resp' = None

\* collect_server_tools: the cached tools of one backend, names unchanged.
collect_server_tools(conns, server_id) ==
    IF server_id \notin DOMAIN conns THEN <<>>
    ELSE [i \in DOMAIN conns[server_id] |->
             [name |-> conns[server_id][i].name,
              inputSchema |-> conns[server_id][i].input_schema,
              description |-> conns[server_id][i].description]]

\* handle_mcp_post up to its second lock section: origin, id, server lookup,
\* method dispatch, parameter checks of tools/call.
handle_mcp_post(r, q) ==
    /\ CanServe(r)
    /\ q.path = "server"
    /\ reqs' = reqs + 1
    /\ IF ~validate_origin(q.origin)
       THEN Respond(r, q, [status |-> 403, body |-> None])
       ELSE IF q.id = None
       THEN Respond(r, q, accepted_response)
       ELSE IF q.server_id \notin DOMAIN servers
       THEN Respond(r, q, mcp_response(make_error_response(q.id, -32602,
                             <<"No server found with ID: ", q.server_id>>)))
       ELSE LET server_name == servers[q.server_id].name IN
            CASE q.method = "initialize" ->
                   Respond(r, q, mcp_response(make_result_response(q.id,
                       [serverInfo |-> <<"MCP Manager - ", server_name>>,
                        listChanged |-> TRUE])))
              [] q.method = "tools/list" ->
                   Continue(r, q, "tools_list", q.server_id, server_name, "")
              [] q.method = "tools/call" ->
                   IF q.params = None
                   THEN Respond(r, q, mcp_response(make_error_response(q.id, -32602,
                                   <<"Missing params for tools/call">>)))
                   ELSE IF q.params[1].name = None
                   THEN Respond(r, q, mcp_response(make_error_response(q.id, -32602,
                                   <<"Missing tool name in params">>)))
                   ELSE Continue(r, q, "registry", q.server_id, server_name,
                                 q.params[1].name[1])
              [] OTHER ->
                   Respond(r, q, mcp_response(make_error_response(q.id, -32601,
                                   <<"Method not found: ", q.method>>)))
    /\ reply' = None
    /\ UNCHANGED <<servers, connections, clients, oauth_store, task, startup, calls>>
    /\ UNCHANGED <<tool_discovery_enabled, stats, tool_hashes, streams>>
    /\ UNCHANGED mcp_vars

\* handle_tools_list: the cached tools of this backend.
proxy_handle_tools_list(r) ==
    /\ req[r].pc = "tools_list"
    /\ LET q == req[r].post[1] IN
       Respond(r, q, mcp_response(make_result_response(q.id,
                        [tools |-> collect_server_tools(connections, req[r].server_id)])))
    /\ reply' = None
    /\ UNCHANGED <<servers, connections, clients, oauth_store, task, startup, calls>>
    /\ UNCHANGED <<tool_discovery_enabled, stats, reqs, tool_hashes, streams>>
    /\ UNCHANGED mcp_vars

\* Variant: the error does not say which backend.
NotConnected_Unnamed(id, server_name) ==
    make_error_response(id, -32602, <<"Server is not connected">>)

\* Not-connected error of both call paths.
NotConnected(id, server_name) ==
    make_error_response(id, -32602, <<"Server '", server_name, "' is not connected">>)

\* handle_tools_call, Registry lock: take the client handle, or answer that
\* the backend is not connected.
proxy_handle_tools_call_lookup(r) ==
    /\ req[r].pc = "registry"
    /\ LET q == req[r].post[1] IN
       IF req[r].server_id \notin DOMAIN clients
       THEN Respond(r, q, mcp_response(NotConnected(q.id, req[r].server_name)))
       ELSE /\ req' = [req EXCEPT ![r].pc = "await",
                                  ![r].client = Some(clients[req[r].server_id])]
            /\ resp' = None
    /\ reply' = None
    /\ UNCHANGED <<servers, connections, clients, oauth_store, task, startup, calls>>
    /\ UNCHANGED <<tool_discovery_enabled, stats, reqs, tool_hashes, streams>>
    /\ UNCHANGED mcp_vars

\* The serialized CallToolResult.
ResultValue(c) == [content |-> c.content, isError |-> c.is_error]

\* Outcome of the awaited call -> (response, is_error) of the per-backend path.
ProxyCallResponse(id, c) ==
    IF c.ok
    THEN [response |-> make_result_response(id, ResultValue(c)),
          is_error |-> (c.is_error = Some(TRUE))]
    ELSE [response |-> make_error_response(id, -32603,
                           <<"Tool call failed: ", c.error>>),
          is_error |-> TRUE]

\* handle_tools_call: client.call_tool has returned; the response is built,
\* the call is recorded under the statistics lock, the response is sent.
proxy_handle_tools_call_returned(r, c, duration_ms) ==
    /\ req[r].pc = "await"
    /\ c \in CallOutcomes(req[r].client[1])
    /\    LET q == req[r].post[1]
              out == ProxyCallResponse(q.id, c)
          IN /\ stats' = record_tool_stats(stats, req[r].server_id, req[r].tool,
                                           q.client, duration_ms, out.is_error)
             /\ Respond(r, q, mcp_response(out.response))
    /\ reply' = None
    /\ UNCHANGED <<servers, connections, clients, oauth_store, task, startup, calls>>
    /\ UNCHANGED <<tool_discovery_enabled, reqs, tool_hashes, streams>>
    /\ UNCHANGED mcp_vars

\* --------------------------------------------------- gateway: /mcp/discovery
\* The characters of the strings that are searched or searched for.
Chars(str) ==
    CASE str = "ping" -> <<"p", "i", "n", "g">>
      [] str = "echo" -> <<"e", "c", "h", "o">>
      [] str = "Ping a HOST" -> <<"P", "i", "n", "g", " ", "a", " ", "H", "O", "S", "T">>
      [] str = "probe url" -> <<"p", "r", "o", "b", "e", " ", "u", "r", "l">>
      [] str = "PING host" -> <<"P", "I", "N", "G", " ", "h", "o", "s", "t">>
      [] str = "url ping" -> <<"u", "r", "l", " ", "p", "i", "n", "g">>
      [] str = "in" -> <<"i", "n">>
      [] str = "host url" -> <<"h", "o", "s", "t", " ", "u", "r", "l">>
      [] str = " " -> <<" ">>
      [] OTHER -> <<>>

\* char::to_lowercase on the letters in use.
ToLowerChar(c) ==
    CASE c = "P" -> "p" [] c = "I" -> "i" [] c = "N" -> "n" [] c = "G" -> "g"
      [] c = "H" -> "h" [] c = "O" -> "o" [] c = "S" -> "s" [] c = "T" -> "t"
      [] OTHER -> c

\* str::to_lowercase
to_lowercase(cs) == [i \in DOMAIN cs |-> ToLowerChar(cs[i])]

\* str::split_whitespace: the maximal runs of non-blank characters.
RECURSIVE SplitFrom(_, _, _)
SplitFrom(cs, i, word) ==
    IF i > Len(cs)
    THEN IF word = <<>> THEN <<>> ELSE <<word>>
    ELSE IF cs[i] = " "
         THEN (IF word = <<>> THEN <<>> ELSE <<word>>) \o SplitFrom(cs, i + 1, <<>>)
         ELSE SplitFrom(cs, i + 1, Append(word, cs[i]))
split_whitespace(cs) == SplitFrom(cs, 1, <<>>)

\* str::contains
contains(hay, needle) ==
    \E i \in 0..(Len(hay) - Len(needle)) : SubSeq(hay, i + 1, i + Len(needle)) = needle

\* summarize_params: one part per property: its name, type ("any" when not
\* given) and whether it is required.
summarize_params(schema) ==
    IF schema = None THEN <<>>
    ELSE [i \in DOMAIN schema[1].properties |->
            LET prop == schema[1].properties[i] IN
            [name |-> prop.name,
             type |-> IF prop.type = None THEN "any" ELSE prop.type[1],
             required |-> prop.name \in schema[1].required]]

\* Result cap of discover_tools.
DiscoverLimit == 20

\* Variant: a tool matches when one term occurs.
ToolMatches_Any(tool, terms) ==
    \E k \in DOMAIN terms :
       contains(to_lowercase(Chars(tool.name)) \o <<" ">>
                  \o to_lowercase(IF tool.description = None THEN <<>>
                                  ELSE Chars(tool.description[1])),
                terms[k])

\* handle_discover_tools: every term occurs in "<name> <description>",
\* both lowercased.
ToolMatches(tool, terms) ==
    LET name_lower == to_lowercase(Chars(tool.name))
        desc_lower == to_lowercase(IF tool.description = None THEN <<>>
                                   ELSE Chars(tool.description[1]))
        haystack == name_lower \o <<" ">> \o desc_lower
    IN \A k \in DOMAIN terms : contains(haystack, terms[k])

\* One match of discover_tools.
MatchEntry(srvs, id, tool) ==
    [server_id |-> id, server_name |-> srvs[id].name, name |-> tool.name,
     parameters |-> summarize_params(tool.input_schema),
     inputSchema |-> tool.input_schema, description |-> tool.description]

\* The inner loop of handle_discover_tools over the tools of one backend.
RECURSIVE ScanTools(_, _, _, _, _, _)
ScanTools(srvs, id, tools, j, terms, matches) ==
    IF j > Len(tools) THEN matches
    ELSE IF ~ToolMatches(tools[j], terms)
         THEN ScanTools(srvs, id, tools, j + 1, terms, matches)
         ELSE LET pushed == Append(matches, MatchEntry(srvs, id, tools[j])) IN
              IF Len(pushed) >= DiscoverLimit THEN pushed
              ELSE ScanTools(srvs, id, tools, j + 1, terms, pushed)

\* The outer loop of handle_discover_tools over the configured backends.
RECURSIVE ScanServers(_, _, _, _, _)
ScanServers(srvs, conns, i, terms, matches) ==
    IF i > Len(ServerOrder) THEN matches
    ELSE LET id == ServerOrder[i] IN
         IF srvs[id].status # "Connected" \/ id \notin DOMAIN conns
         THEN ScanServers(srvs, conns, i + 1, terms, matches)
         ELSE LET scanned == ScanTools(srvs, id, conns[id], 1, terms, matches) IN
              IF Len(scanned) >= DiscoverLimit THEN scanned
              ELSE ScanServers(srvs, conns, i + 1, terms, scanned)

\* A tool result with one text item.
TextResult(text, is_error) ==
    [content |-> <<[type |-> "text", text |-> Some(text)]>>, isError |-> is_error]

\* handle_discover_tools for a non-empty query.  The text is the message of
\* an empty search, or the JSON array of the matches.
handle_discover_tools(id, query, srvs, conns) ==
    LET terms == split_whitespace(to_lowercase(Chars(query)))
        matches == ScanServers(srvs, conns, 1, terms, <<>>)
    IN make_result_response(id,
          TextResult(IF matches = <<>>
                     THEN <<"No tools found matching '", query, "'">>
                     ELSE <<"[", matches, "]">>, None))

\* handle_list_servers: the Connected backends with their cached tool names.
RECURSIVE ListFrom(_, _, _)
ListFrom(srvs, conns, i) ==
    IF i > Len(ServerOrder) THEN <<>>
    ELSE LET id == ServerOrder[i]
             tool_names == IF id \in DOMAIN conns
                           THEN [j \in DOMAIN conns[id] |-> conns[id][j].name]
                           ELSE <<>>
         IN (IF srvs[id].status # "Connected" THEN <<>>
             ELSE <<[server_id |-> id, server_name |-> srvs[id].name,
                     tool_count |-> Len(tool_names), tools |-> tool_names]>>)
            \o ListFrom(srvs, conns, i + 1)
handle_list_servers(id, srvs, conns) ==
    LET listed == ListFrom(srvs, conns, 1) IN
    make_result_response(id,
        TextResult(IF listed = <<>> THEN <<"No servers are currently connected.">>
                   ELSE <<"[", listed, "]">>, None))

\* lookup_tool_schema: the cached input schema of a tool of a backend.
lookup_tool_schema(conns, server_id, tool_name) ==
    IF server_id \notin DOMAIN conns THEN None
    ELSE LET found == {j \in DOMAIN conns[server_id] :
                          conns[server_id][j].name = tool_name} IN
         IF found = {} THEN None
         ELSE conns[server_id][CHOOSE j \in found : \A k \in found : j <= k].input_schema

\* Variant: the hint is left out.
tool_error_with_schema_NoHint(id, error_text, conns, server_id, tool_name) ==
    make_result_response(id, TextResult(error_text, Some(TRUE)))

\* tool_error_with_schema: a tool result with the error flag, whose text is
\* the error text followed by the tool's input schema when it is cached.
tool_error_with_schema(id, error_text, conns, server_id, tool_name) ==
    LET schema == lookup_tool_schema(conns, server_id, tool_name)
        hint == IF schema # None
                THEN <<"Expected inputSchema for '", tool_name, "':", schema[1]>>
                ELSE <<>>
    IN make_result_response(id, TextResult(error_text \o hint, Some(TRUE)))

\* The three meta-tools listed by the discovery endpoint.
MetaTools == <<"discover_tools", "call_tool", "list_servers">>

\* Variant: the generic internal-error code.
NotEnabled_Internal(id) ==
    make_error_response(id, -32603, <<"Internal error">>)

\* Fixed error of the discovery endpoint while the flag is off.
NotEnabled(id) ==
    make_error_response(id, -32001, <<"Tool discovery mode is not enabled">>)

\* handle_discovery_post up to the first lock section of a meta-tool: flag,
\* id, method dispatch, argument checks.
handle_discovery_post(r, q) ==
    /\ CanServe(r)
    /\ q.path = "discovery"
    /\ reqs' = reqs + 1
    /\ IF ~tool_discovery_enabled
       THEN Respond(r, q, mcp_response(NotEnabled(q.id)))
       ELSE IF q.id = None
       THEN Respond(r, q, accepted_response)
       ELSE CASE q.method = "initialize" ->
                   Respond(r, q, mcp_response(make_result_response(q.id,
                       [serverInfo |-> <<"MCP Manager - Discovery">>,
                        listChanged |-> FALSE])))
              [] q.method = "tools/list" ->
                   Respond(r, q, mcp_response(make_result_response(q.id,
                       [tools |-> MetaTools])))
              [] q.method = "tools/call" ->
                   IF q.params = None
                   THEN Respond(r, q, mcp_response(make_error_response(q.id, -32602,
                                   <<"Missing params for tools/call">>)))
                   ELSE IF q.params[1].name = None
                   THEN Respond(r, q, mcp_response(make_error_response(q.id, -32602,
                                   <<"Missing tool name in params">>)))
                   ELSE LET tool_name == q.params[1].name[1]
                            arguments == q.params[1].arguments
                        IN
                        CASE tool_name = "discover_tools" ->
                               IF arguments.query = None \/ arguments.query = Some("")
                               THEN Respond(r, q, mcp_response(make_error_response(
                                        q.id, -32602,
                                        <<"Missing required argument: query">>)))
                               ELSE Continue(r, q, "discover", "x", "", "")
                          [] tool_name = "list_servers" ->
                               Continue(r, q, "list_servers", "x", "", "")
                          [] tool_name = "call_tool" ->
                               IF arguments.server_id = None
                               THEN Respond(r, q, mcp_response(make_error_response(
                                        q.id, -32602,
                                        <<"Missing required argument: server_id">>)))
                               ELSE IF arguments.tool_name = None
                               THEN Respond(r, q, mcp_response(make_error_response(
                                        q.id, -32602,
                                        <<"Missing required argument: tool_name">>)))
                               ELSE Continue(r, q, "server", arguments.server_id[1],
                                             "", arguments.tool_name[1])
                          [] OTHER ->
                               Respond(r, q, mcp_response(make_error_response(
                                   q.id, -32602,
                                   <<"Unknown discovery tool: ", tool_name>>)))
              [] OTHER ->
                   Respond(r, q, mcp_response(make_error_response(q.id, -32601,
                                   <<"Method not found: ", q.method>>)))
    /\ reply' = None
    /\ UNCHANGED <<servers, connections, clients, oauth_store, task, startup, calls>>
    /\ UNCHANGED <<tool_discovery_enabled, stats, tool_hashes, streams>>
    /\ UNCHANGED mcp_vars

\* discover_tools under the state lock.
discovery_handle_discover_tools(r) ==
    /\ req[r].pc = "discover"
    /\ LET q == req[r].post[1] IN
       Respond(r, q, mcp_response(handle_discover_tools(
                        q.id, q.params[1].arguments.query[1], servers, connections)))
    /\ reply' = None
    /\ UNCHANGED <<servers, connections, clients, oauth_store, task, startup, calls>>
    /\ UNCHANGED <<tool_discovery_enabled, stats, reqs, tool_hashes, streams>>
    /\ UNCHANGED mcp_vars

\* list_servers under the state lock.
discovery_handle_list_servers(r) ==
    /\ req[r].pc = "list_servers"
    /\ LET q == req[r].post[1] IN
       Respond(r, q, mcp_response(handle_list_servers(q.id, servers, connections)))
    /\ reply' = None
    /\ UNCHANGED <<servers, connections, clients, oauth_store, task, startup, calls>>
    /\ UNCHANGED <<tool_discovery_enabled, stats, reqs, tool_hashes, streams>>
    /\ UNCHANGED mcp_vars

\* handle_call_tool, state lock: the name of the backend, or no such backend.
discovery_handle_call_tool_server(r) ==
    /\ req[r].pc = "server"
    /\ LET q == req[r].post[1] IN
       IF req[r].server_id \notin DOMAIN servers
       THEN Respond(r, q, mcp_response(make_error_response(q.id, -32602,
                             <<"No server found with ID: ", req[r].server_id>>)))
       ELSE /\ req' = [req EXCEPT ![r].pc = "d_registry",
                                  ![r].server_name = servers[req[r].server_id].name]
            /\ resp' = None
    /\ reply' = None
    /\ UNCHANGED <<servers, connections, clients, oauth_store, task, startup, calls>>
    /\ UNCHANGED <<tool_discovery_enabled, stats, reqs, tool_hashes, streams>>
    /\ UNCHANGED mcp_vars

\* handle_call_tool, Registry lock: the client handle, or not connected.
discovery_handle_call_tool_lookup(r) ==
    /\ req[r].pc = "d_registry"
    /\ LET q == req[r].post[1] IN
       IF req[r].server_id \notin DOMAIN clients
       THEN Respond(r, q, mcp_response(NotConnected(q.id, req[r].server_name)))
       ELSE /\ req' = [req EXCEPT ![r].pc = "d_await",
                                  ![r].client = Some(clients[req[r].server_id])]
            /\ resp' = None
    /\ reply' = None
    /\ UNCHANGED <<servers, connections, clients, oauth_store, task, startup, calls>>
    /\ UNCHANGED <<tool_discovery_enabled, stats, reqs, tool_hashes, streams>>
    /\ UNCHANGED mcp_vars

\* Text of the first content item of a result, if it has one.
FirstText(content) ==
    IF content # <<>> /\ content[1].text # None
    THEN <<content[1].text[1]>>
    ELSE <<"Tool returned an error">>

\* Outcome of the awaited call -> (response, is_error) of the discovery path.
DiscoveryCallResponse(id, c, conns, server_id, tool_name) ==
    IF c.ok
    THEN IF c.is_error = Some(TRUE)
         THEN [response |-> tool_error_with_schema(id, FirstText(c.content), conns,
                                                   server_id, tool_name),
               is_error |-> TRUE]
         ELSE [response |-> make_result_response(id, ResultValue(c)),
               is_error |-> FALSE]
    ELSE [response |-> tool_error_with_schema(id, <<"Tool call failed: ", c.error>>,
                                              conns, server_id, tool_name),
          is_error |-> TRUE]

\* handle_call_tool: client.call_tool has returned; the response is built
\* (reading the cached schema under the state lock on the error paths), the
\* call is recorded under the statistics lock, the response is sent.
discovery_handle_call_tool_returned(r, c, duration_ms) ==
    /\ req[r].pc = "d_await"
    /\ c \in CallOutcomes(req[r].client[1])
    /\    LET q == req[r].post[1]
              out == DiscoveryCallResponse(q.id, c, connections,
                                           req[r].server_id, req[r].tool)
          IN /\ stats' = record_tool_stats(stats, req[r].server_id, req[r].tool,
                                           q.client, duration_ms, out.is_error)
             /\ Respond(r, q, mcp_response(out.response))
    /\ reply' = None
    /\ UNCHANGED <<servers, connections, clients, oauth_store, task, startup, calls>>
    /\ UNCHANGED <<tool_discovery_enabled, reqs, tool_hashes, streams>>
    /\ UNCHANGED mcp_vars

\* set_discovery_mode: the operator switches the discovery flag.
set_discovery_mode(enabled) ==
    /\ tool_discovery_enabled' = enabled
    /\ reply' = None
    /\ resp' = None
    /\ UNCHANGED <<servers, connections, clients, oauth_store, task, startup, calls>>
    /\ UNCHANGED <<stats, req, reqs, tool_hashes, streams>>
    /\ UNCHANGED mcp_vars

\* ------------------------------------------------------------------ Next
Step(t) ==
    \/ connect_server_resolve(t)
    \/ connect_server_connected(t)
    \/ connect_server_failed(t)
    \/ finalize_connection_state(t)
    \/ finalize_connection_conns(t)
    \/ disconnect_server_state(t)
    \/ start_oauth_flow_rejected(t)
    \/ \E state \in CallbackStates : start_oauth_flow_callback(t, state)
    \/ start_oauth_flow_exchange_failed(t)
    \/ start_oauth_flow_authorized(t, "tok1")
    \/ start_oauth_flow_reconnect(t)
    \/ start_oauth_flow_connected(t)
    \/ start_oauth_flow_failed(t)
    \/ start_oauth_flow_state(t)
    \/ start_oauth_flow_conns(t)

StartupStep ==
    \/ reconnect_on_startup_reset
    \/ reconnect_on_startup_next
    \/ reconnect_on_startup_resolve
    \/ reconnect_on_startup_connected
    \/ reconnect_on_startup_failed
    \/ reconnect_on_startup_state
    \/ reconnect_on_startup_conns

Next ==
    \/ \E t \in Tasks, id \in CallIds : connect_server_begin(t, id)
    \/ \E t \in Tasks, id \in CallIds : disconnect_server_begin(t, id)
    \/ \E t \in Tasks, id \in CallIds : start_oauth_flow_begin(t, id)
    \/ \E t \in Tasks : Step(t)
    \/ StartupStep
    \/ \E id \in Ids : child_exit(id)

Spec == Init /\ [][Next]_vars

\* The runtime keeps scheduling every task that can run: a command that has
\* been issued and the startup routine make progress.  The operator issuing
\* a command and a child exiting are not forced.
FairSpec ==
    /\ Spec
    /\ \A t \in Tasks : WF_vars(Step(t))
    /\ WF_vars(StartupStep)

\* An operation is at work on backend id: a command issued on it has not
\* returned, or the startup routine is between the loop head and the end of
\* the attempt for it.
Busy(id) ==
    \/ \E t \in Tasks : InProgress(t) /\ task[t].id = id
    \/ /\ startup.pc \in {"resolve", "handshake", "finalize_state", "finalize_conns"}
       /\ Cur.id = id

\* The runs in which no two operations overlap on a backend: a command is
\* issued on a backend, and the startup routine turns to one, only when no
\* other operation is at work on it; the reset, which writes every backend,
\* runs when no command is in progress.
IsoNext ==
    \/ \E t \in Tasks, id \in CallIds : ~Busy(id) /\ connect_server_begin(t, id)
    \/ \E t \in Tasks, id \in CallIds : ~Busy(id) /\ disconnect_server_begin(t, id)
    \/ \E t \in Tasks, id \in CallIds : ~Busy(id) /\ start_oauth_flow_begin(t, id)
    \/ \E t \in Tasks : Step(t)
    \/ (\A t \in Tasks : ~InProgress(t)) /\ reconnect_on_startup_reset
    \/ /\ startup.pc = "next"
       /\ ~Busy(startup.to_reconnect[startup.i + 1].id)
       /\ reconnect_on_startup_next
    \/ reconnect_on_startup_resolve
    \/ reconnect_on_startup_connected
    \/ reconnect_on_startup_failed
    \/ reconnect_on_startup_state
    \/ reconnect_on_startup_conns
    \/ \E id \in Ids : child_exit(id)

IsoSpec == Init /\ [][IsoNext]_vars

\* The steps of a connect_server call after its first lock section.
ConnectStep(t) ==
    \/ connect_server_resolve(t)
    \/ connect_server_connected(t)
    \/ connect_server_failed(t)
    \/ finalize_connection_state(t)
    \/ finalize_connection_conns(t)

\* The startup routine racing with connect_server calls of the UI
\* (autoConnectServers), and nothing else.
RaceNext ==
    \/ \E t \in Tasks, id \in CallIds : connect_server_begin(t, id)
    \/ \E t \in Tasks : ConnectStep(t)
    \/ StartupStep

RaceSpec == Init /\ [][RaceNext]_vars

\* Authorization flows alone, of both command slots, with every token the
\* authorization server can issue.
OAuthNext ==
    \/ \E t \in Tasks, id \in CallIds : start_oauth_flow_begin(t, id)
    \/ \E t \in Tasks : start_oauth_flow_rejected(t)
    \/ \E t \in Tasks, state \in CallbackStates : start_oauth_flow_callback(t, state)
    \/ \E t \in Tasks : start_oauth_flow_exchange_failed(t)
    \/ \E t \in Tasks, tokens \in Tokens : start_oauth_flow_authorized(t, tokens)
    \/ \E t \in Tasks : start_oauth_flow_reconnect(t)
    \/ \E t \in Tasks : start_oauth_flow_connected(t)
    \/ \E t \in Tasks : start_oauth_flow_failed(t)
    \/ \E t \in Tasks : start_oauth_flow_state(t)
    \/ \E t \in Tasks : start_oauth_flow_conns(t)

OAuthSpec == Init /\ [][OAuthNext]_vars

\* ------------------------------------------------------------ the gateway
\* The gateway serves POSTs one at a time while one command task connects
\* and disconnects the backends of Connectable, their children exit and the
\* operator switches the discovery flag.  The other configured backend stays
\* unconnected.
Connectable == {"p"}

GwInit ==
    /\ Init
    /\ \A id \in Ids : /\ servers[id].status = "Disconnected"
                       /\ Target(ServerConnectConfig(servers[id]))
                            \in {Some("cmd"), Some("http://h/mcp")}

GwNext ==
    \/ \E id \in Connectable : connect_server_begin("t1", id)
    \/ connect_server_resolve("t1")
    \/ connect_server_connected("t1")
    \/ finalize_connection_state("t1")
    \/ finalize_connection_conns("t1")
    \/ \E id \in Connectable : disconnect_server_begin("t1", id)
    \/ disconnect_server_state("t1")
    \/ \E id \in Connectable : child_exit(id)
    \/ \E enabled \in BOOLEAN : set_discovery_mode(enabled)
    \/ \E q \in BackendPosts : handle_mcp_post("r1", q)
    \/ proxy_handle_tools_list("r1")
    \/ proxy_handle_tools_call_lookup("r1")
    \/ \E c \in CallResults, d \in Durations :
          proxy_handle_tools_call_returned("r1", c, d)
    \/ \E q \in DiscoveryPosts : handle_discovery_post("r1", q)
    \/ discovery_handle_discover_tools("r1")
    \/ discovery_handle_list_servers("r1")
    \/ discovery_handle_call_tool_server("r1")
    \/ discovery_handle_call_tool_lookup("r1")
    \/ \E c \in CallResults, d \in Durations :
          discovery_handle_call_tool_returned("r1", c, d)

GatewaySpec == GwInit /\ [][GwNext]_vars

\* tools/call POSTs on the per-backend paths, served concurrently.
CallPosts ==
    {q \in BackendPosts : q.method = "tools/call" /\ q.origin = "local"
                            /\ q.id # None /\ q.client = ""}

ConcNext ==
    \/ \E id \in Connectable : connect_server_begin("t1", id)
    \/ connect_server_resolve("t1")
    \/ connect_server_connected("t1")
    \/ finalize_connection_state("t1")
    \/ finalize_connection_conns("t1")
    \/ \E id \in Connectable : disconnect_server_begin("t1", id)
    \/ disconnect_server_state("t1")
    \/ \E id \in Connectable : child_exit(id)
    \/ \E r \in Requests, q \in CallPosts : handle_mcp_post(r, q)
    \/ \E r \in Requests : proxy_handle_tools_call_lookup(r)
    \/ \E r \in Requests, c \in CallResults, d \in Durations :
          proxy_handle_tools_call_returned(r, c, d)

ConcSpec == GwInit /\ [][ConcNext]_vars

\* ------------------------------------------------ tools/list_changed
\* GET streams opened on the gateway.
Subscribers == {"s1", "s2"}

\* The tool lists an update can report: their names, in the order reported.
ToolLists ==
    {<<>>, <<"ping">>, <<"echo">>, <<"ping", "echo">>, <<"echo", "ping">>,
     <<"ping", "ping">>}

\* Order of str on the tool names in use.
NameRank(name) == CASE name = "echo" -> 1 [] name = "ping" -> 2

\* Variant: the names are hashed in the order reported.
hash_tool_names_Unsorted(names) == names

\* hash_tool_names: the hash of the sorted names.  The hash of a list is
\* kept as the list itself, so that different lists have different hashes.
hash_tool_names(names) == SortSeq(names, LAMBDA a, b : NameRank(a) < NameRank(b))

\* broadcast::Sender::send: the value is queued for every open receiver.
\* Fewer values are sent in a run than the channel holds (64), so that no
\* receiver lags.
Send(id) ==
    [tail |-> streams.tail + 1,
     rx |-> [sub \in DOMAIN streams.rx |->
               [streams.rx[sub] EXCEPT !.queue = Append(@, id)]]]

\* notify_if_tools_changed, with the hash tracker and the sender that
\* start_proxy registers: an update of backend id reports new_tools.
notify_if_tools_changed(id, new_tools) ==
    /\ calls < MaxCalls
    /\ calls' = calls + 1
    /\ LET new_hash == hash_tool_names(new_tools) IN
       IF id \in DOMAIN tool_hashes /\ tool_hashes[id] = new_hash
       THEN UNCHANGED <<tool_hashes, streams>>
       ELSE /\ tool_hashes' = MapInsert(tool_hashes, id, new_hash)
            /\ streams' = Send(id)
    /\ reply' = None
    /\ resp' = None
    /\ UNCHANGED <<servers, connections, clients, oauth_store, task, startup>>
    /\ UNCHANGED <<tool_discovery_enabled, stats, req, reqs>>
    /\ UNCHANGED mcp_vars

\* handle_mcp_get: a GET on /mcp/{server_id} subscribes to the channel.
handle_mcp_get(sub, server_id) ==
    /\ sub \notin DOMAIN streams.rx
    /\ streams' = [streams EXCEPT !.rx = MapInsert(@, sub,
                       [server_id |-> server_id, queue |-> <<>>, events |-> <<>>])]
    /\ reply' = None
    /\ resp' = None
    /\ UNCHANGED <<servers, connections, clients, oauth_store, task, startup, calls>>
    /\ UNCHANGED <<tool_discovery_enabled, stats, req, reqs, tool_hashes>>
    /\ UNCHANGED mcp_vars

\* The stream of handle_mcp_get receives the next value: a notification is
\* yielded when it is the id of the stream (events keeps which id caused
\* each notification), any other id is skipped.
handle_mcp_get_recv(sub) ==
    /\ sub \in DOMAIN streams.rx
    /\ streams.rx[sub].queue # <<>>
    /\ LET changed_id == Head(streams.rx[sub].queue) IN
       streams' = [streams EXCEPT
                      !.rx[sub].queue = Tail(@),
                      !.rx[sub].events = IF changed_id = streams.rx[sub].server_id
                                         THEN Append(@, changed_id) ELSE @]
    /\ reply' = None
    /\ resp' = None
    /\ UNCHANGED <<servers, connections, clients, oauth_store, task, startup, calls>>
    /\ UNCHANGED <<tool_discovery_enabled, stats, req, reqs, tool_hashes>>
    /\ UNCHANGED mcp_vars

NotifyNext ==
    \/ \E id \in Ids, new_tools \in ToolLists : notify_if_tools_changed(id, new_tools)
    \/ \E sub \in Subscribers, id \in CallIds : handle_mcp_get(sub, id)
    \/ \E sub \in Subscribers : handle_mcp_get_recv(sub)

NotifySpec == GwInit /\ [][NotifyNext]_vars

\* --------------------------------------------------------- discover_tools
\* Size of the large tool list a backend can answer with.
MaxTools == 21

\* A backend with many tools: the tools its transport answers with, repeated.
LargeAnswer(transport) ==
    LET small == CHOOSE a \in ToolAnswers(transport) : TRUE IN
    [i \in 1..MaxTools |->
        IF i % 2 = 1 THEN small[1]
        ELSE [name |-> "echo", description |-> None, input_schema |-> None]]

\* discover_tools calls: the queries searched for.
Queries == {"ping", "PING host", "url ping", "in", " ", "host url"}
DiscoverPosts ==
    {[path |-> "discovery", server_id |-> "x", origin |-> "local", id |-> Some(1),
      method |-> "tools/call", client |-> "",
      params |-> Some([name |-> Some("discover_tools"),
                       arguments |-> [NoArguments EXCEPT !.query = Some(query)]])] :
        query \in Queries}

\* The discovery endpoint is enabled; each backend is Connected or not and
\* has no cached tools, its usual tools, or the large list.
DiscoverInit ==
    /\ \E st \in [Ids -> {"Connected", "Disconnected"}],
          cached \in [Ids -> {"none", "small", "large"}] :
          /\ servers = [id \in Ids |->
                          [transport |-> TransportOf(id), name |-> NameOf(id),
                           command |-> IF TransportOf(id) = "Stdio"
                                       THEN Some("cmd") ELSE None,
                           url |-> IF TransportOf(id) = "Http"
                                   THEN Some("http://h/mcp") ELSE None,
                           status |-> st[id], last_connected |-> None]]
          /\ connections =
                [id \in {i \in Ids : cached[i] # "none"} |->
                    McpTools(IF cached[id] = "large" THEN LargeAnswer(TransportOf(id))
                             ELSE CHOOSE a \in ToolAnswers(TransportOf(id)) : TRUE,
                             id, NameOf(id))]
    /\ clients = EmptyMap
    /\ oauth_store = EmptyMap
    /\ task = [t \in Tasks |-> IdleTask]
    /\ startup = [pc |-> "done", to_reconnect |-> <<>>, i |-> 0, client |-> None]
    /\ calls = 0
    /\ reply = None
    /\ tool_discovery_enabled = TRUE
    /\ stats = EmptyMap
    /\ req = [r \in Requests |-> IdleRequest]
    /\ reqs = 0
    /\ resp = None
    /\ tool_hashes = EmptyMap
    /\ streams = [tail |-> 0, rx |-> EmptyMap]
    /\ clock = 1000
    /\ resolving = IdleResolve
    /\ building = NoClient
    /\ tport = NoTransport
    /\ sends = [c \in Senders |-> IdleSend]
    /\ locks = NoLocks
    /\ parsing = NoParse

DiscoverNext ==
    \/ \E q \in DiscoverPosts : handle_discovery_post("r1", q)
    \/ discovery_handle_discover_tools("r1")

DiscoverSpec == DiscoverInit /\ [][DiscoverNext]_vars


\* ------------------------------------------------------- token resolution
\* OAuthTokens as the store holds them at startup: obtained in the past,
\* with the lifetime the authorization server announced (any u64), if any.
StoredTokens ==
    [access_token : {"tok1"},
     refresh_token : {None, Some("ref1")},
     expires_in : {None} \cup {Some(e) : e \in (0 .. MaxExpiry) \cup {U64 - 901, U64 - 1}},
     obtained_at : {900, 1000}]

\* What the token endpoint answers to a refresh: None for any failure,
\* else the new OAuthTokens (the old refresh token is kept when the answer
\* carries none).
RefreshAnswers(refresh_tok) ==
    {None} \cup
    {Some([access_token |-> "tok2", refresh_token |-> Some(r),
           expires_in |-> e, obtained_at |-> clock]) :
        r \in {refresh_tok, "ref2"}, e \in {None, Some(3600)}}

\* is_token_expired: the sum is a u64 sum.
is_token_expired(tokens, secs) ==
    IF tokens.expires_in = None THEN FALSE
    ELSE (secs + 60) % U64 >= (tokens.obtained_at + tokens.expires_in[1]) % U64

\* resolve_access_token up to its first suspension point.  A build with
\* overflow checks panics in is_token_expired where the sum leaves u64.
resolve_access_token(id, overflow_checks) ==
    /\ resolving.pc = "idle"
    /\ IF id \notin DOMAIN oauth_store
       THEN resolving' = [IdleResolve EXCEPT !.pc = "done", !.id = id]
       ELSE IF oauth_store[id].tokens = None
       THEN resolving' = [IdleResolve EXCEPT !.pc = "done", !.id = id]
       ELSE LET tokens == oauth_store[id].tokens[1] IN
            IF /\ overflow_checks
               /\ tokens.expires_in # None
               /\ tokens.obtained_at + tokens.expires_in[1] >= U64
            THEN resolving' = [IdleResolve EXCEPT !.pc = "panicked", !.id = id]
            ELSE IF ~is_token_expired(tokens, clock)
            THEN resolving' = [IdleResolve EXCEPT !.pc = "done", !.id = id,
                                  !.token = Some(tokens.access_token)]
            ELSE IF tokens.refresh_token # None
            THEN resolving' = [IdleResolve EXCEPT !.pc = "refresh", !.id = id]
            ELSE resolving' = [IdleResolve EXCEPT !.pc = "done", !.id = id]
    /\ UNCHANGED <<lifecycle_vars, gateway_vars, resp, clock, building, tport, sends, locks, parsing>>

\* try_refresh_token as resolve_access_token awaits it: the record is read
\* again, the token endpoint answers, the new tokens replace the old ones.
try_refresh_token(answer) ==
    /\ resolving.pc = "refresh"
    /\ LET id == resolving.id
           known == IF id \notin DOMAIN oauth_store THEN FALSE
                    ELSE IF oauth_store[id].tokens = None THEN FALSE
                    ELSE oauth_store[id].tokens[1].refresh_token # None
       IN  /\ known => answer \in RefreshAnswers(oauth_store[id].tokens[1].refresh_token[1])
           /\ ~known => answer = None
           /\ resolving' = [resolving EXCEPT
                              !.pc = "done",
                              !.token = IF answer = None THEN None
                                        ELSE Some(answer[1].access_token),
                              !.refreshes = IF known THEN @ + 1 ELSE @]
           /\ oauth_store' = IF answer # None /\ id \in DOMAIN oauth_store
                             THEN [oauth_store EXCEPT ![id].tokens = answer]
                             ELSE oauth_store
    /\ UNCHANGED <<servers, connections, clients, task, startup, calls, reply>>
    /\ UNCHANGED <<gateway_vars, resp, clock, building, tport, sends, locks, parsing>>

\* The store as loaded at startup, the clock, and one connect resolving the
\* token of the remote backend.
TokenInit ==
    /\ servers = [id \in Ids |->
                    [transport |-> TransportOf(id), name |-> NameOf(id),
                     command |-> IF TransportOf(id) = "Stdio" THEN Some("cmd") ELSE None,
                     url |-> IF TransportOf(id) = "Http" THEN Some("http://h/mcp") ELSE None,
                     status |-> "Connecting", last_connected |-> None]]
    /\ connections = EmptyMap
    /\ clients = EmptyMap
    /\ oauth_store \in {EmptyMap} \cup [{"h"} -> {[tokens |-> None]}]
                       \cup [{"h"} -> {[tokens |-> Some(k)] : k \in StoredTokens}]
    /\ task = [t \in Tasks |-> IdleTask]
    /\ startup = [pc |-> "done", to_reconnect |-> <<>>, i |-> 0, client |-> None]
    /\ calls = 0
    /\ reply = None
    /\ tool_discovery_enabled = FALSE
    /\ stats = EmptyMap
    /\ req = [r \in Requests |-> IdleRequest]
    /\ reqs = 0
    /\ resp = None
    /\ tool_hashes = EmptyMap
    /\ streams = [tail |-> 0, rx |-> EmptyMap]
    /\ clock \in {1000, 1001}
    /\ resolving = IdleResolve
    /\ building = NoClient
    /\ tport = NoTransport
    /\ sends = [c \in Senders |-> IdleSend]
    /\ locks = NoLocks
    /\ parsing = NoParse

TokenNext ==
    \/ \E overflow_checks \in BOOLEAN : resolve_access_token("h", overflow_checks)
    \/ \E answer \in {None} \cup RefreshAnswers("ref1") : try_refresh_token(answer)

TokenSpec == TokenInit /\ [][TokenNext]_vars


\* ---------------------------------------------------- client construction
\* What a send_request of the handshake ends with: an error of the
\* transport, or a response whose result is absent, does not parse, or
\* parses to one of the values.
Answers(cfg, values) ==
    {[err |-> Some(e), result |-> None] : e \in HandshakeErrors(cfg)}
    \cup {[err |-> None, result |-> None]}
    \cup {[err |-> None, result |-> Some([parses |-> b, value |-> v])] :
            b \in BOOLEAN, v \in values}

\* What the backends answer to tools/list.
ListAnswers == ToolAnswers("Stdio") \cup ToolAnswers("Http") \cup {<<>>}

\* McpClient::initialize of the client slot t builds: the initialize
\* request, its response, the initialized notification.
initialize(t, answer, notified) ==
    /\ task[t].op = "connect" /\ task[t].pc = "handshake"
    /\ \/ /\ building.pc = "initialize"
          /\ building' = [building EXCEPT !.pc = "initialize_response",
                                          !.sent = Append(@, "initialize")]
       \/ /\ building.pc = "initialize_response"
          /\ answer \in Answers(task[t].cfg[1],
                                {[capabilities |-> "caps", server_info |-> "info"]})
          /\ building' =
                IF answer.err # None
                THEN [building EXCEPT !.pc = "failed", !.err = answer.err]
                ELSE IF answer.result = None
                THEN [building EXCEPT !.pc = "failed", !.err = Some("Protocol")]
                ELSE IF ~answer.result[1].parses
                THEN [building EXCEPT !.pc = "failed", !.err = Some("Protocol")]
                ELSE [building EXCEPT
                         !.pc = "initialized",
                         !.server_capabilities = Some(answer.result[1].value.capabilities),
                         !.server_info = Some(answer.result[1].value.server_info)]
       \/ /\ building.pc = "initialized"
          /\ building' =
                IF notified
                THEN [building EXCEPT !.pc = "discover_tools",
                                      !.sent = Append(@, "notifications/initialized")]
                ELSE [building EXCEPT !.pc = "failed", !.err = Some("Transport")]
    /\ UNCHANGED <<lifecycle_vars, gateway_vars, resp, clock, resolving, tport, sends, locks, parsing>>

\* McpClient::discover_tools: the tools/list request and its response.
discover_tools(t, answer) ==
    /\ task[t].op = "connect" /\ task[t].pc = "handshake"
    /\ \/ /\ building.pc = "discover_tools"
          /\ building' = [building EXCEPT !.pc = "discover_tools_response",
                                          !.sent = Append(@, "tools/list")]
       \/ /\ building.pc = "discover_tools_response"
          /\ answer \in Answers(task[t].cfg[1], ListAnswers)
          /\ building' =
                IF answer.err # None
                THEN [building EXCEPT !.pc = "failed", !.err = answer.err]
                ELSE IF answer.result = None
                THEN [building EXCEPT !.pc = "failed", !.err = Some("Protocol")]
                ELSE IF ~answer.result[1].parses
                THEN [building EXCEPT !.pc = "failed", !.err = Some("Protocol")]
                ELSE [building EXCEPT !.pc = "built",
                                      !.tools = answer.result[1].value]
    /\ UNCHANGED <<lifecycle_vars, gateway_vars, resp, clock, resolving, tport, sends, locks, parsing>>

\* McpClient::connect_stdio / connect_http as connect_server awaits it: the
\* transport is made, and after initialize and discover_tools the client is
\* returned; an error of any step is returned in its place.
McpClient_connect(t, spawned) ==
    /\ task[t].op = "connect" /\ task[t].pc = "handshake"
    /\ \/ /\ building.pc \in {"none", "returned"}
          /\ building' = IF spawned THEN [NoClient EXCEPT !.pc = "initialize"]
                         ELSE [NoClient EXCEPT !.pc = "failed", !.err = Some("Transport")]
          /\ UNCHANGED <<servers, task, reply>>
       \/ /\ building.pc = "built"
          /\ building' = [building EXCEPT !.pc = "returned"]
          /\ task' = [task EXCEPT ![t].pc = "finalize_state",
                         ![t].client = Some(McpClient(task[t].cfg[1], building.tools))]
          /\ reply' = None
          /\ UNCHANGED servers
       \/ /\ building.pc = "failed"
          /\ building' = NoClient
          /\ servers' = mark_server_error(servers, task[t].id)
          /\ Return(t, building.err[1], ConnectErrorSignal(building.err[1]))
    /\ UNCHANGED <<connections, clients, oauth_store, startup, calls>>
    /\ resp' = None
    /\ UNCHANGED <<gateway_vars, clock, resolving, tport, sends, locks, parsing>>

ClientNext ==
    \/ \E id \in Ids : connect_server_begin("t1", id)
    \/ connect_server_resolve("t1")
    \/ \E spawned \in BOOLEAN : McpClient_connect("t1", spawned)
    \/ \E answer \in Answers(ServerConnectConfig(servers["h"]),
                             {[capabilities |-> "caps", server_info |-> "info"]}),
          notified \in BOOLEAN : initialize("t1", answer, notified)
    \/ \E answer \in Answers(ServerConnectConfig(servers["h"]), ListAnswers) :
          discover_tools("t1", answer)
    \/ finalize_connection_state("t1")
    \/ finalize_connection_conns("t1")
    \/ \E id \in Ids : disconnect_server_begin("t1", id)
    \/ disconnect_server_state("t1")

ClientSpec == GwInit /\ [][ClientNext]_vars


\* ------------------------------------------------------ process transport
\* Max number of recent error-level stderr lines kept.
STDERR_BUFFER_SIZE == 10

\* The n-th diagnostic line of the child: its number and the keywords its
\* upper-cased text contains.
StderrLine(n) ==
    [n |-> n,
     words |-> IF n % 4 = 1 THEN {"ERROR:"}
               ELSE IF n % 4 = 2 THEN {"TRACEBACK", "WARNING"}
               ELSE IF n % 4 = 3 THEN {" INFO "}
               ELSE {}]

\* detect_log_level, on the keywords of the upper-cased text.
detect_log_level(text) ==
    IF text.words \cap {" ERROR ", "TRACEBACK", "ERROR:", "ERROR ", "THROW ERR"} # {}
    THEN "error"
    ELSE IF text.words \cap {"WARNING", "USERWARNING"} # {} THEN "warn"
    ELSE IF text.words \cap {" INFO ", "LEVEL=INFO", "INFO ", " DEBUG "} # {} THEN "info"
    ELSE "warn"

\* Variant: the retained lines are not used.
stderr_enriched_error_Fallback(fallback) ==
    [kind |-> "Transport", text |-> <<[n |-> 0, words |-> {fallback}]>>]

\* stderr_enriched_error: the retained lines, or the fallback text (a text
\* that is no diagnostic line is written as a line numbered 0).
stderr_enriched_error(fallback) ==
    [kind |-> "Transport",
     text |-> IF tport.recent_stderr = <<>> THEN <<[n |-> 0, words |-> {fallback}]>>
              ELSE tport.recent_stderr]

\* StdioTransport::spawn: the child runs, the writer and the reader tasks
\* are started, the Registry will hold the transport.
spawn ==
    /\ tport.kind = "none"
    /\ tport' = [NoTransport EXCEPT
                       !.kind = "stdio", !.stdin_tx = "open", !.writer = "running",
                       !.reader = "running", !.peer = "running", !.owner = "registry"]
    /\ UNCHANGED <<lifecycle_vars, gateway_vars, resp, clock, resolving, building, sends, locks, parsing>>

\* StdioTransport::send_request of caller c, step by step: the id is taken
\* and the pending entry inserted; the line is handed to the input channel;
\* the response is awaited for at most 60 seconds.
send_request(c, timed_out) ==
    /\ tport.kind = "stdio"
    /\ \/ /\ sends[c].pc = "idle"
          /\ tport.owner = "registry"
          /\ tport.next_id <= MaxIds
          /\ sends' = [sends EXCEPT ![c] = [IdleSend EXCEPT !.pc = "send",
                                               !.id = tport.next_id,
                                               !.rx = "waiting"]]
          /\ tport' = [tport EXCEPT !.next_id = @ + 1,
                                            !.pending = @ \cup {tport.next_id}]
       \/ /\ sends[c].pc = "send"
          /\ IF tport.writer = "running"
             THEN /\ tport' = [tport EXCEPT !.queued = @ + 1]
                  /\ sends' = [sends EXCEPT ![c].pc = "wait"]
             ELSE /\ UNCHANGED tport
                  /\ sends' = [sends EXCEPT
                        ![c].pc = "done", ![c].rx = "none",
                        ![c].result = Some(stderr_enriched_error(
                                               "Server process exited unexpectedly"))]
       \/ /\ sends[c].pc = "wait"
          /\ UNCHANGED tport
          /\ sends' = [sends EXCEPT
                ![c].pc = "done", ![c].rx = "none",
                ![c].result =
                   IF sends[c].rx = "result" THEN Some([kind |-> "Ok", text |-> <<>>])
                   ELSE IF sends[c].rx = "error"
                   THEN Some([kind |-> "Protocol",
                              text |-> <<[n |-> 0, words |-> {"code: message"}]>>])
                   ELSE IF sends[c].rx = "dropped"
                   THEN Some(stderr_enriched_error("Server process exited unexpectedly"))
                   ELSE Some([kind |-> "Transport",
                              text |-> <<[n |-> 0, words |-> {"Timeout"}]>>])]
          /\ sends[c].rx = "waiting" => timed_out
       \/ /\ sends[c].pc = "done"
          /\ UNCHANGED tport
          /\ sends' = [sends EXCEPT ![c] = IdleSend]
    /\ UNCHANGED <<lifecycle_vars, gateway_vars, resp, clock, resolving, building, locks, parsing>>

\* The oneshot sender of request id is used: the response reaches the
\* caller still waiting for that id, and is lost when none is.
Deliver(id, outcome) ==
    [c \in Senders |->
        IF sends[c].id = id /\ sends[c].rx = "waiting"
        THEN [sends[c] EXCEPT !.rx = outcome, !.got = id]
        ELSE sends[c]]

\* The reader task of spawn handles one event of the child: a line of its
\* output (a response with an id, or anything else), a diagnostic line, or
\* its termination.
reader(event, id, outcome) ==
    /\ tport.kind = "stdio"
    /\ tport.reader = "running"
    /\ \/ /\ event = "Stdout"
          /\ IF id \in tport.pending
             THEN /\ tport' = [tport EXCEPT !.pending = @ \ {id}]
                  /\ sends' = Deliver(id, outcome)
             ELSE UNCHANGED <<tport, sends>>
       \/ /\ event = "Stderr"
          /\ tport.stderr_seen < MaxStderr
          /\ LET text == StderrLine(tport.stderr_seen + 1)
                 buf == Append(tport.recent_stderr, text)
             IN  tport' =
                    [tport EXCEPT
                       !.stderr_seen = @ + 1,
                       !.recent_stderr =
                          IF detect_log_level(text) # "error" THEN @
                          ELSE IF Len(buf) > STDERR_BUFFER_SIZE THEN Tail(buf)
                          ELSE buf]
          /\ UNCHANGED sends
       \/ /\ event = "Terminated"
          /\ tport.peer # "running"
          /\ tport' = [tport EXCEPT !.pending = {}, !.reader = "ended"]
          /\ sends' = [c \in Senders |->
                         IF sends[c].id \in tport.pending /\ sends[c].rx = "waiting"
                         THEN [sends[c] EXCEPT !.rx = "dropped"]
                         ELSE sends[c]]
    /\ UNCHANGED <<lifecycle_vars, gateway_vars, resp, clock, resolving, building, locks, parsing>>

\* The writer task of spawn: a queued line is written to the child; when
\* the write fails, or the channel is closed and empty, the child is killed.
stdin_writer ==
    /\ tport.kind = "stdio"
    /\ tport.writer = "running"
    /\ IF tport.queued > 0 /\ tport.peer = "running"
       THEN tport' = [tport EXCEPT !.queued = @ - 1]
       ELSE /\ tport.queued > 0 \/ tport.stdin_tx = "dropped"
            /\ tport' = [tport EXCEPT
                               !.writer = "ended", !.queued = 0,
                               !.peer = IF @ = "running" THEN "killed" ELSE @]
    /\ UNCHANGED <<lifecycle_vars, gateway_vars, resp, clock, resolving, building, sends, locks, parsing>>

\* The child exits by itself.
process_exit ==
    /\ tport.kind = "stdio"
    /\ tport.peer = "running"
    /\ tport' = [tport EXCEPT !.peer = "exited"]
    /\ UNCHANGED <<lifecycle_vars, gateway_vars, resp, clock, resolving, building, sends, locks, parsing>>

\* StdioTransport::shutdown, called by the holder that took the client out
\* of the Registry: a log line.
shutdown ==
    /\ tport.kind = "stdio"
    /\ tport.owner \in {"registry", "shutdown"}
    /\ tport' = [tport EXCEPT !.owner = "shutdown"]
    /\ UNCHANGED <<lifecycle_vars, gateway_vars, resp, clock, resolving, building, sends, locks, parsing>>

\* The last holder of the client drops it: the sender of the input channel
\* goes with it.
drop_transport ==
    /\ tport.kind = "stdio"
    /\ tport.owner \in {"registry", "shutdown"}
    /\ \A c \in Senders : sends[c].pc \in {"idle", "done"}
    /\ tport' = [tport EXCEPT !.owner = "dropped", !.stdin_tx = "dropped"]
    /\ UNCHANGED <<lifecycle_vars, gateway_vars, resp, clock, resolving, building, sends, locks, parsing>>

StdioNext ==
    \/ spawn
    \/ \E timed_out \in BOOLEAN : send_request("c1", timed_out)
    \/ \E event \in {"Stdout", "Stderr", "Terminated"}, id \in 1 .. MaxIds + 1,
          outcome \in {"result", "error"} : reader(event, id, outcome)
    \/ stdin_writer
    \/ process_exit
    \/ shutdown
    \/ drop_transport

StdioSpec == GwInit /\ [][StdioNext]_vars


\* ---------------------------------------------- legacy event-stream transport
\* u64::to_string: the decimal digits of n.
RECURSIVE u64_to_string(_)
u64_to_string(n) ==
    IF n < 10 THEN <<n>> ELSE Append(u64_to_string(n \div 10), n % 10)

\* The id of a response event: a JSON number, a JSON string holding the
\* digits of a number, or anything else.
EventIds == [kind : {"Number", "String", "Null"}, n : 1 .. MaxIds + 1]

\* dispatch_sse_responses, the key a response is looked up under: the text
\* of a number, a string as it is, nothing for any other id.
id_str(id) ==
    IF id.kind \in {"Number", "String"} THEN Some(u64_to_string(id.n)) ELSE None

\* The keys of the pending table.
PendingKeys == {e.key : e \in tport.pending}

\* Variant: the response is sent to every caller still waiting.
SseDeliver_Any(key, outcome) ==
    [c \in Senders |->
        IF sends[c].rx = "waiting"
        THEN [sends[c] EXCEPT !.rx = outcome, !.got = sends[c].id]
        ELSE sends[c]]

\* tx.send on the oneshot sender stored under key: the response reaches the
\* request that created the channel if it still waits, and is lost if not.
SseDeliver(key, outcome) ==
    [c \in Senders |->
        IF /\ \E e \in tport.pending : e.key = key /\ e.tx = sends[c].id
           /\ sends[c].rx = "waiting"
        THEN [sends[c] EXCEPT !.rx = outcome, !.got = sends[c].id]
        ELSE sends[c]]

\* Variant: the drained sender is dropped unused.
stream_closed_response_None(waiter) == waiter

\* The end-of-stream cleanup uses a drained sender: the waiter receives an
\* error response with the id of its request, code -1, "SSE stream closed".
stream_closed_response(waiter) ==
    [waiter EXCEPT !.rx = "closed", !.got = waiter.id]

\* HttpTransport::connect_legacy_sse: the event stream is open, the reader
\* task is started, the pending table is empty.
connect_legacy_sse ==
    /\ tport.kind = "none"
    /\ tport' = [NoTransport EXCEPT !.kind = "sse", !.reader = "running",
                                    !.peer = "running", !.owner = "registry"]
    /\ UNCHANGED <<lifecycle_vars, gateway_vars, resp, clock, resolving, building, sends, locks, parsing>>

\* HttpTransport::send_request on a legacy transport, step by step: the id
\* is taken and the pending entry inserted; the request is POSTed; the
\* response is awaited on the event stream for at most 60 seconds; after
\* the timer fired the entry is removed.
send_request_legacy_sse(c, post, timed_out) ==
    /\ tport.kind = "sse"
    /\ LET key == u64_to_string(sends[c].id)
           Err(kind, msg) == Some([kind |-> kind,
                                   text |-> <<[n |-> 0, words |-> {msg}]>>])
       IN
       \/ /\ sends[c].pc = "idle"
          /\ tport.owner = "registry"
          /\ tport.next_id <= MaxIds
          /\ sends' = [sends EXCEPT ![c] = [IdleSend EXCEPT !.pc = "send",
                                               !.id = tport.next_id,
                                               !.rx = "waiting"]]
          /\ tport' = [tport EXCEPT
                         !.next_id = @ + 1,
                         !.pending = {e \in @ : e.key # u64_to_string(tport.next_id)}
                                       \cup {[key |-> u64_to_string(tport.next_id),
                                              tx |-> tport.next_id]}]
       \/ /\ sends[c].pc = "send"
          /\ \/ /\ post = "failed"
                /\ tport' = [tport EXCEPT !.cleanup = @ \cup {key}]
                /\ sends' = [sends EXCEPT ![c].pc = "done", ![c].rx = "none",
                                ![c].result = Err("Transport", "HTTP request failed")]
             \/ /\ post = "401"
                /\ tport' = [tport EXCEPT !.pending = {e \in @ : e.key # key}]
                /\ sends' = [sends EXCEPT ![c].pc = "done", ![c].rx = "none",
                                ![c].result = Err("AuthRequired", "post_url")]
             \/ /\ post = "500"
                /\ tport' = [tport EXCEPT !.pending = {e \in @ : e.key # key}]
                /\ sends' = [sends EXCEPT ![c].pc = "done", ![c].rx = "none",
                                ![c].result = Err("Transport", "returned status")]
             \/ /\ post \in {"200", "202"}
                /\ UNCHANGED tport
                /\ sends' = [sends EXCEPT ![c].pc = "wait"]
       \/ /\ sends[c].pc = "wait"
          /\ UNCHANGED tport
          /\ IF sends[c].rx = "result"
             THEN sends' = [sends EXCEPT ![c].pc = "done", ![c].rx = "none",
                               ![c].result = Some([kind |-> "Ok", text |-> <<>>])]
             ELSE IF sends[c].rx = "error"
             THEN sends' = [sends EXCEPT ![c].pc = "done", ![c].rx = "none",
                               ![c].result = Err("Protocol", "code: message")]
             ELSE IF sends[c].rx = "closed"
             THEN sends' = [sends EXCEPT ![c].pc = "done", ![c].rx = "none",
                               ![c].result = Err("Protocol", "-1: SSE stream closed")]
             ELSE /\ timed_out
                  /\ sends' = [sends EXCEPT ![c].pc = "timeout", ![c].rx = "none"]
       \/ /\ sends[c].pc = "timeout"
          /\ tport' = [tport EXCEPT !.pending = {e \in @ : e.key # key}]
          /\ sends' = [sends EXCEPT ![c].pc = "done",
                          ![c].result = Err("Transport", "Timeout waiting for SSE response")]
       \/ /\ sends[c].pc = "done"
          /\ UNCHANGED tport
          /\ sends' = [sends EXCEPT ![c] = IdleSend]
    /\ UNCHANGED <<lifecycle_vars, gateway_vars, resp, clock, resolving, building, locks, parsing>>

\* The task send_request_legacy_sse spawns when the POST could not be sent:
\* the entry under key is removed.
sse_cleanup(key) ==
    /\ tport.kind = "sse"
    /\ key \in tport.cleanup
    /\ tport' = [tport EXCEPT !.cleanup = @ \ {key},
                              !.pending = {e \in @ : e.key # key}]
    /\ UNCHANGED <<lifecycle_vars, gateway_vars, resp, clock, resolving, building, sends, locks, parsing>>

\* The reader task of connect_legacy_sse handles one event of the stream
\* (dispatch_sse_responses: only a message with an id that is a key of the
\* pending table is dispatched, and its entry removed), or the end of the
\* stream: every entry is drained and answered with error -1.
sse_reader(event_type, id, outcome) ==
    /\ tport.kind = "sse"
    /\ tport.reader = "running"
    /\ \/ /\ event_type \in {"", "message", "endpoint"}
          /\ IF /\ event_type \in {"", "message"}
                /\ id_str(id) # None
                /\ id_str(id)[1] \in PendingKeys
             THEN /\ tport' = [tport EXCEPT
                                 !.pending = {e \in @ : e.key # id_str(id)[1]}]
                  /\ sends' = SseDeliver(id_str(id)[1], outcome)
             ELSE UNCHANGED <<tport, sends>>
       \/ /\ event_type = "closed"
          /\ tport' = [tport EXCEPT !.pending = {}, !.reader = "ended",
                                    !.peer = "closed"]
          /\ sends' = [c \in Senders |->
                         IF /\ \E e \in tport.pending : e.tx = sends[c].id
                            /\ sends[c].rx = "waiting"
                         THEN stream_closed_response(sends[c])
                         ELSE sends[c]]
    /\ UNCHANGED <<lifecycle_vars, gateway_vars, resp, clock, resolving, building, locks, parsing>>

SseNext ==
    \/ connect_legacy_sse
    \/ \E c \in Senders, post \in {"failed", "401", "500", "200", "202"},
          timed_out \in BOOLEAN : send_request_legacy_sse(c, post, timed_out)
    \/ \E n \in 1 .. MaxIds : sse_cleanup(u64_to_string(n))
    \/ \E event_type \in {"", "message", "endpoint", "closed"}, id \in EventIds,
          outcome \in {"result", "error"} : sse_reader(event_type, id, outcome)

SseSpec == GwInit /\ [][SseNext]_vars


\* ------------------------------------------------------ the Registry lock
\* Variant: the guard of the Registry lock is kept.
MutexUnlock_Keep(held) == held

\* The guard of the Registry lock goes out of scope at the end of its block.
MutexUnlock(held) == [held EXCEPT !.registry = ""]

\* handle_tools_call, the block around the Registry: the lock is awaited
\* and taken; the client handle is cloned (or the backend found not
\* connected) and the guard dropped.
handle_tools_call_registry(r) ==
    /\ \/ /\ req[r].pc = "registry"
          /\ locks.registry = ""
          /\ locks' = [locks EXCEPT !.registry = r]
          /\ req' = [req EXCEPT ![r].pc = "registry_locked"]
          /\ resp' = None
       \/ /\ req[r].pc = "registry_locked"
          /\ locks' = MutexUnlock(locks)
          /\ LET q == req[r].post[1] IN
             IF req[r].server_id \notin DOMAIN clients
             THEN Respond(r, q, mcp_response(NotConnected(q.id, req[r].server_name)))
             ELSE /\ req' = [req EXCEPT ![r].pc = "await",
                                        ![r].client = Some(clients[req[r].server_id])]
                  /\ resp' = None
    /\ reply' = None
    /\ UNCHANGED <<servers, connections, clients, oauth_store, task, startup, calls>>
    /\ UNCHANGED <<tool_discovery_enabled, stats, reqs, tool_hashes, streams>>
    /\ UNCHANGED <<clock, resolving, building, tport, sends, parsing>>

\* disconnect_server, the block around the Registry: the lock is awaited
\* and taken; the client is removed and shut down and the guard dropped.
disconnect_server_registry(t, id) ==
    /\ \/ /\ CanCall(t)
          /\ locks.registry = ""
          /\ locks' = [locks EXCEPT !.registry = t]
          /\ calls' = calls + 1
          /\ task' = [task EXCEPT ![t] = [NewTask("disconnect", id) EXCEPT
                                             !.pc = "dc_locked"]]
          /\ UNCHANGED clients
       \/ /\ task[t].op = "disconnect" /\ task[t].pc = "dc_locked" /\ task[t].id = id
          /\ locks' = MutexUnlock(locks)
          /\ clients' = MapRemove(clients, id)
          /\ task' = [task EXCEPT ![t].pc = "dc_state",
                                  ![t].shut = (id \in DOMAIN clients)]
          /\ UNCHANGED calls
    /\ reply' = None
    /\ UNCHANGED <<servers, connections, oauth_store, startup>>
    /\ resp' = None
    /\ UNCHANGED gateway_vars
    /\ UNCHANGED <<clock, resolving, building, tport, sends, parsing>>

\* finalize_connection, the block around the Registry: the lock is awaited
\* and taken; the live client is inserted and the guard dropped; Ok(()).
finalize_connection_registry(t) ==
    /\ task[t].op = "connect"
    /\ \/ /\ task[t].pc = "finalize_conns"
          /\ locks.registry = ""
          /\ locks' = [locks EXCEPT !.registry = t]
          /\ task' = [task EXCEPT ![t].pc = "finalize_conns_locked"]
          /\ reply' = None
          /\ UNCHANGED clients
       \/ /\ task[t].pc = "finalize_conns_locked"
          /\ locks' = MutexUnlock(locks)
          /\ clients' = MapInsert(clients, task[t].id, task[t].client[1])
          /\ Return(t, "Ok", "none")
    /\ UNCHANGED <<servers, connections, oauth_store, startup, calls>>
    /\ resp' = None
    /\ UNCHANGED gateway_vars
    /\ UNCHANGED <<clock, resolving, building, tport, sends, parsing>>

\* Two tools/call POSTs and one connect or disconnect at a time, on either
\* backend, every block around the Registry taking its lock.
LockNext ==
    \/ \E id \in Ids : connect_server_begin("t1", id)
    \/ connect_server_resolve("t1")
    \/ connect_server_connected("t1")
    \/ finalize_connection_state("t1")
    \/ finalize_connection_registry("t1")
    \/ \E id \in Ids : disconnect_server_registry("t1", id)
    \/ disconnect_server_state("t1")
    \/ \E r \in Requests, q \in CallPosts : handle_mcp_post(r, q)
    \/ \E r \in Requests : handle_tools_call_registry(r)
    \/ \E r \in Requests, c \in CallResults, d \in Durations :
          proxy_handle_tools_call_returned(r, c, d)

LockSpec == GwInit /\ [][LockNext]_vars


\* ------------------------------------------- streamable HTTP: response body
\* The lines of an event-stream body, as str::lines, strip_prefix and trim
\* see them: an "event:" line with its name, a "data:" line with its
\* payload, any other line (the empty line that ends an event).
SseLines ==
    {[field |-> "event", value |-> "message"], [field |-> "event", value |-> "ping"],
     [field |-> "data", value |-> "r1"], [field |-> "data", value |-> "r2"],
     [field |-> "", value |-> ""]}

\* Response bodies of at most MaxLines lines.
SseBodies == UNION {[1 .. n -> SseLines] : n \in 0 .. MaxLines}

\* The loop of extract_json_from_sse from line i on: current_event is set
\* by an "event:" line; the payload of a "data:" line is pushed while
\* current_event is empty or "message".
RECURSIVE json_parts(_, _, _, _)
json_parts(body, i, current_event, parts) ==
    IF i > Len(body) THEN parts
    ELSE IF body[i].field = "event"
    THEN json_parts(body, i + 1, body[i].value, parts)
    ELSE IF body[i].field = "data" /\ current_event \in {"", "message"}
    THEN json_parts(body, i + 1, current_event, Append(parts, body[i].value))
    ELSE json_parts(body, i + 1, current_event, parts)

\* extract_json_from_sse: the last payload pushed, or a Transport error when
\* none was.
extract_json_from_sse(body) ==
    LET parts == json_parts(body, 1, "", <<>>) IN
    IF parts = <<>>
    THEN [kind |-> "Transport", json |-> "No JSON data found in SSE response"]
    ELSE [kind |-> "Ok", json |-> parts[Len(parts)]]

\* HttpTransport::send_request in streamable mode, once the body of a
\* text/event-stream response was read: the JSON text is extracted.
send_request_extract ==
    /\ parsing.pc = "body"
    /\ parsing' = [parsing EXCEPT !.pc = "extracted",
                                  !.out = Some(extract_json_from_sse(parsing.body))]
    /\ UNCHANGED <<lifecycle_vars, gateway_vars, resp, clock, resolving, building, tport, sends, locks>>

\* No command, no gateway request, no transport: all but the statistics
\* and the event-stream text.
QuietInit ==
    /\ servers = [id \in Ids |->
                    [transport |-> TransportOf(id), name |-> NameOf(id),
                     command |-> IF TransportOf(id) = "Stdio" THEN Some("cmd") ELSE None,
                     url |-> IF TransportOf(id) = "Http" THEN Some("http://h/mcp") ELSE None,
                     status |-> "Disconnected", last_connected |-> None]]
    /\ connections = EmptyMap
    /\ clients = EmptyMap
    /\ oauth_store = EmptyMap
    /\ task = [t \in Tasks |-> IdleTask]
    /\ startup = [pc |-> "done", to_reconnect |-> <<>>, i |-> 0, client |-> None]
    /\ calls = 0
    /\ reply = None
    /\ tool_discovery_enabled = FALSE
    /\ req = [r \in Requests |-> IdleRequest]
    /\ reqs = 0
    /\ resp = None
    /\ tool_hashes = EmptyMap
    /\ streams = [tail |-> 0, rx |-> EmptyMap]
    /\ clock = 1000
    /\ resolving = IdleResolve
    /\ building = NoClient
    /\ tport = NoTransport
    /\ sends = [c \in Senders |-> IdleSend]
    /\ locks = NoLocks

\* A response body has been read.
BodyInit ==
    /\ QuietInit
    /\ stats = EmptyMap
    /\ parsing \in {[pc |-> "body", body |-> b, out |-> None] : b \in SseBodies}

BodyNext == send_request_extract

BodySpec == BodyInit /\ [][BodyNext]_vars


\* -------------------------------------------------------------- statistics
\* The statistics of a backend after n calls of ping without a client name,
\* the i-th of which took i milliseconds: what load_stats finds after n
\* calls were recorded and saved.
Recorded(n) ==
    LET kept == IF n > MAX_RECENT_CALLS THEN MAX_RECENT_CALLS ELSE n
        agg == [total_calls |-> n, errors |-> 0,
                total_duration_ms |-> (n * (n + 1)) \div 2]
    IN  [total_calls |-> agg.total_calls, errors |-> agg.errors,
         total_duration_ms |-> agg.total_duration_ms,
         tools |-> IF n = 0 THEN EmptyMap ELSE MapInsert(EmptyMap, "ping", agg),
         clients |-> EmptyMap,
         recent_calls |-> [i \in 1 .. kept |->
                             [tool |-> "ping", client |-> "",
                              duration_ms |-> n - kept + i, is_error |-> FALSE,
                              timestamp |-> unix_now]]]

\* The call counts the loaded statistics of the process backend stand at.
LoadedCalls == {0, MAX_RECENT_CALLS - 1, MAX_RECENT_CALLS, MAX_RECENT_CALLS + 1}

StatsInit ==
    /\ QuietInit
    /\ parsing = NoParse
    /\ stats \in {EmptyMap} \cup {MapInsert(EmptyMap, "p", Recorded(n)) :
                                   n \in LoadedCalls \ {0}}

\* A gateway call has returned and is recorded; the k-th call recorded for
\* a backend took k milliseconds.
record_call(server_id, tool_name, client_id, is_error) ==
    /\ reqs < MaxRecorded
    /\ reqs' = reqs + 1
    /\ stats' = record_tool_stats(stats, server_id, tool_name, client_id,
                                  EntryOr(stats, server_id, DefaultServerStats).total_calls + 1,
                                  is_error)
    /\ UNCHANGED <<lifecycle_vars, resp, mcp_vars>>
    /\ UNCHANGED <<tool_discovery_enabled, req, tool_hashes, streams>>

\* reset_server_stats: the entry of the backend is removed.
reset_server_stats(server_id) ==
    /\ stats' = MapRemove(stats, server_id)
    /\ UNCHANGED <<lifecycle_vars, resp, mcp_vars>>
    /\ UNCHANGED <<tool_discovery_enabled, req, reqs, tool_hashes, streams>>

StatsNext ==
    \/ \E server_id \in Ids, tool_name \in {"ping", "echo"}, client_id \in ClientIds,
          is_error \in BOOLEAN : record_call(server_id, tool_name, client_id, is_error)
    \/ \E server_id \in Ids : reset_server_stats(server_id)

StatsSpec == StatsInit /\ [][StatsNext]_vars


\* ------------------------------------------- add_server and remove_server
\* add_server: a backend with a fresh id (one nothing refers to) is pushed,
\* Disconnected.
add_server(id, config) ==
    /\ calls < MaxCalls
    /\ calls' = calls + 1
    /\ id \notin DOMAIN servers \cup DOMAIN clients \cup DOMAIN connections
                  \cup DOMAIN oauth_store
    /\ servers' = [i \in DOMAIN servers \cup {id} |->
                     IF i # id THEN servers[i]
                     ELSE [transport |-> TransportOf(id), name |-> NameOf(id),
                           command |-> IF TransportOf(id) = "Stdio" THEN config[id] ELSE None,
                           url |-> IF TransportOf(id) = "Http" THEN config[id] ELSE None,
                           status |-> "Disconnected", last_connected |-> None]]
    /\ reply' = None
    /\ resp' = None
    /\ UNCHANGED <<connections, clients, oauth_store, task, startup>>
    /\ UNCHANGED gateway_vars
    /\ UNCHANGED mcp_vars

\* remove_server: the backend is taken out of AppState.servers and its
\* cached tools out of AppState.connections; ServerNotFound for an unknown
\* id.
remove_server(id) ==
    /\ calls < MaxCalls
    /\ calls' = calls + 1
    /\ IF id \notin DOMAIN servers
       THEN UNCHANGED <<servers, connections>>
       ELSE /\ servers' = [i \in DOMAIN servers \ {id} |-> servers[i]]
            /\ connections' = MapRemove(connections, id)
    /\ reply' = None
    /\ resp' = None
    /\ UNCHANGED <<clients, oauth_store, task, startup>>
    /\ UNCHANGED gateway_vars
    /\ UNCHANGED mcp_vars

\* The runs in which no two operations overlap on a backend, the set of
\* configured backends changing once the startup routine is over.
ViewsNext ==
    \/ IsoNext
    \/ \E id \in Ids, config \in Configs :
          startup.pc = "done" /\ ~Busy(id) /\ add_server(id, config)
    \/ \E id \in CallIds : startup.pc = "done" /\ ~Busy(id) /\ remove_server(id)

ViewsSpec == Init /\ [][ViewsNext]_vars


\* --------------------------------------- legacy event stream: the bytes
\* The text of an event stream is a sequence of pieces: a line feed, the
\* prefix of a data line, the whole of an "event:" line, a piece of a URL
\* or a JSON payload.  A chunk ends between two pieces.
SseStream ==
    <<"event: endpoint", "\n", "data:", "/", "a", "\n", "\n",
      "event: message", "\n", "data:", "r1", "\n", "\n",
      "data:", "r2", "\n", "\n">>

\* The GET URL is http://h/sse: its origin.
Origin == <<"http://h">>

\* The text cut into chunks after the positions in cuts.
RECURSIVE Chunks(_, _, _)
Chunks(text, start, cuts) ==
    IF cuts = {} THEN <<SubSeq(text, start, Len(text))>>
    ELSE LET c == CHOOSE x \in cuts : \A y \in cuts : x <= y
         IN  <<SubSeq(text, start, c)>> \o Chunks(text, c + 1, cuts \ {c})

\* Every way the stream arrives in at most MaxChunks chunks.
Chunkings ==
    {Chunks(SseStream, 1, cuts) :
        cuts \in {S \in SUBSET (1 .. Len(SseStream) - 1) : Cardinality(S) < MaxChunks}}

\* str::lines: the runs between line feeds; a last line needs no line feed.
RECURSIVE str_lines(_, _, _)
str_lines(text, i, line) ==
    IF i > Len(text) THEN (IF line = <<>> THEN <<>> ELSE <<line>>)
    ELSE IF text[i] = "\n" THEN <<line>> \o str_lines(text, i + 1, <<>>)
    ELSE str_lines(text, i + 1, Append(line, text[i]))

\* line.strip_prefix("event:"), trimmed: the name of an "event:" line.
event_name(line) ==
    IF line = <<>> THEN None
    ELSE IF line[1] = "event: endpoint" THEN Some("endpoint")
    ELSE IF line[1] = "event: message" THEN Some("message")
    ELSE None

\* line.strip_prefix("data:"), trimmed: the payload of a "data:" line.
data_of(line) ==
    IF line # <<>> /\ line[1] = "data:" THEN Some(Tail(line)) ELSE None

\* The endpoint resolved: an absolute URL as it is, a path against the
\* origin of the GET URL.
resolve_endpoint(endpoint) ==
    IF endpoint # <<>> /\ endpoint[1] \in {"http://", "https://"} THEN endpoint
    ELSE IF endpoint # <<>> /\ endpoint[1] = "/" THEN Origin \o endpoint
    ELSE Origin \o <<"/">> \o endpoint

\* parse_endpoint_from_sse from line i on: the first "data:" line met while
\* current_event is "endpoint" gives the POST URL; none gives an error.
RECURSIVE parse_endpoint_lines(_, _, _)
parse_endpoint_lines(ls, i, current_event) ==
    IF i > Len(ls) THEN None
    ELSE IF event_name(ls[i]) # None
    THEN parse_endpoint_lines(ls, i + 1, event_name(ls[i])[1])
    ELSE IF data_of(ls[i]) # None /\ current_event = "endpoint"
    THEN Some(resolve_endpoint(data_of(ls[i])[1]))
    ELSE parse_endpoint_lines(ls, i + 1, current_event)

parse_endpoint_from_sse(body) == parse_endpoint_lines(str_lines(body, 1, <<>>), 1, "")

\* str::find: the first position where needle starts, 0 when nowhere.
find(hay, needle) ==
    LET at == {i \in 1 .. Len(hay) - Len(needle) + 1 :
                  SubSeq(hay, i, i + Len(needle) - 1) = needle}
    IN  IF at = {} THEN 0 ELSE CHOOSE i \in at : \A j \in at : i <= j

\* drain_consumed_events: what follows the empty line that ends the
\* endpoint event; nothing when that empty line is not in the buffer.
drain_consumed_events(buffer) ==
    LET idx == find(buffer, <<"event: endpoint">>)
        end == IF idx = 0 THEN 0
               ELSE find(SubSeq(buffer, idx, Len(buffer)), <<"\n", "\n">>)
    IN  IF idx = 0 \/ end = 0 THEN <<>>
        ELSE SubSeq(buffer, idx + end + 1, Len(buffer))

\* The JSON payloads of the message events an event block holds (at most
\* one): the block of an event of another name, or without data, has none.
RECURSIVE block_event(_, _, _, _)
block_event(ls, i, name, data_parts) ==
    IF i > Len(ls)
    THEN IF name \in {"", "message"} /\ data_parts # <<>> THEN <<data_parts>> ELSE <<>>
    ELSE IF event_name(ls[i]) # None
    THEN block_event(ls, i + 1, event_name(ls[i])[1], data_parts)
    ELSE IF data_of(ls[i]) # None
    THEN block_event(ls, i + 1, name, data_parts \o data_of(ls[i])[1])
    ELSE block_event(ls, i + 1, name, data_parts)

\* dispatch_sse_responses: every complete event (ended by an empty line) is
\* taken out of the buffer, the message events among them are dispatched.
RECURSIVE dispatch_sse_text(_, _)
dispatch_sse_text(buf, dispatched) ==
    LET event_end == find(buf, <<"\n", "\n">>) IN
    IF event_end = 0 THEN [buf |-> buf, events |-> dispatched]
    ELSE dispatch_sse_text(
             SubSeq(buf, event_end + 2, Len(buf)),
             dispatched \o block_event(str_lines(SubSeq(buf, 1, event_end - 1), 1, <<>>),
                                       1, "", <<>>))

\* connect_legacy_sse, the loop that looks for the endpoint: the next chunk
\* is appended to the buffer and the buffer parsed; the end of the stream
\* without an endpoint is an error.
connect_legacy_sse_chunk ==
    /\ parsing.pc = "endpoint"
    /\ IF parsing.chunks = <<>>
       THEN parsing' = [parsing EXCEPT !.pc = "failed"]
       ELSE LET buffer == parsing.buffer \o Head(parsing.chunks)
                found == parse_endpoint_from_sse(buffer)
            IN  parsing' = [parsing EXCEPT
                              !.chunks = Tail(@), !.buffer = buffer,
                              !.post_url = found,
                              !.pc = IF found = None THEN "endpoint" ELSE "spawn"]
    /\ UNCHANGED <<lifecycle_vars, gateway_vars, resp, clock, resolving, building, tport, sends, locks>>

\* connect_legacy_sse, once the endpoint is known: the reader task starts
\* with what drain_consumed_events leaves of the buffer.
connect_legacy_sse_spawn ==
    /\ parsing.pc = "spawn"
    /\ parsing' = [parsing EXCEPT !.pc = "reading",
                                  !.buf = drain_consumed_events(parsing.buffer)]
    /\ UNCHANGED <<lifecycle_vars, gateway_vars, resp, clock, resolving, building, tport, sends, locks>>

\* The reader task receives a chunk: it is appended to its buffer and the
\* complete events are dispatched.
sse_reader_chunk ==
    /\ parsing.pc = "reading"
    /\ parsing.chunks # <<>>
    /\ LET out == dispatch_sse_text(parsing.buf \o Head(parsing.chunks), <<>>) IN
       parsing' = [parsing EXCEPT !.chunks = Tail(@), !.buf = out.buf,
                                  !.events = @ \o out.events]
    /\ UNCHANGED <<lifecycle_vars, gateway_vars, resp, clock, resolving, building, tport, sends, locks>>

\* The GET of connect_legacy_sse was answered; the stream will arrive in
\* one of the chunkings.
ChunkInit ==
    /\ QuietInit
    /\ stats = EmptyMap
    /\ parsing \in {[pc |-> "endpoint", chunks |-> c, buffer |-> <<>>,
                     post_url |-> None, buf |-> <<>>, events |-> <<>>] :
                       c \in Chunkings \cup {<<>>}}

ChunkNext ==
    \/ connect_legacy_sse_chunk
    \/ connect_legacy_sse_spawn
    \/ sse_reader_chunk

ChunkSpec == ChunkInit /\ [][ChunkNext]_vars


\* --------------------------------------- token refresh and clear_oauth_tokens
\* Variant: the new tokens are stored whether or not a record is held.
store_new_tokens_Insert(store, server_id, new_tokens) ==
    MapInsert(store, server_id, [tokens |-> new_tokens, client_id |-> None])

\* The last block of try_refresh_token: the tokens of the record are
\* replaced if the store still holds a record for the backend.
store_new_tokens(store, server_id, new_tokens) ==
    IF server_id \in DOMAIN store
    THEN [store EXCEPT ![server_id].tokens = new_tokens]
    ELSE store

\* The first block of try_refresh_token, under the lock of the store: the
\* refresh token of the record is copied out, or the function returns Err.
try_refresh_token_read ==
    /\ resolving.pc = "refresh"
    /\ "wrote" \notin DOMAIN resolving
    /\ LET id == resolving.id
           known == IF id \notin DOMAIN oauth_store THEN FALSE
                    ELSE IF oauth_store[id].tokens = None THEN FALSE
                    ELSE oauth_store[id].tokens[1].refresh_token # None
       IN  resolving' =
              [pc |-> IF known THEN "http" ELSE "done",
               id |-> id, token |-> None, refreshes |-> resolving.refreshes,
               refresh_tok |-> IF known THEN oauth_store[id].tokens[1].refresh_token
                               ELSE None,
               new_tokens |-> None, wrote |-> FALSE]
    /\ UNCHANGED <<lifecycle_vars, gateway_vars, resp, clock, building, tport, sends, locks, parsing>>

\* refresh_token awaited with the lock released: the token endpoint
\* answers, a failure returns Err.
try_refresh_token_http(answer) ==
    /\ resolving.pc = "http"
    /\ answer \in RefreshAnswers(resolving.refresh_tok[1])
    /\ resolving' = [resolving EXCEPT
                       !.pc = IF answer = None THEN "done" ELSE "write",
                       !.new_tokens = answer,
                       !.refreshes = @ + 1]
    /\ UNCHANGED <<lifecycle_vars, gateway_vars, resp, clock, building, tport, sends, locks, parsing>>

\* The last block of try_refresh_token, under the lock again, and its
\* Ok(new_access).
try_refresh_token_write ==
    /\ resolving.pc = "write"
    /\ oauth_store' = store_new_tokens(oauth_store, resolving.id, resolving.new_tokens)
    /\ resolving' = [resolving EXCEPT
                       !.pc = "done",
                       !.token = Some(resolving.new_tokens[1].access_token),
                       !.wrote = resolving.id \in DOMAIN oauth_store]
    /\ UNCHANGED <<servers, connections, clients, task, startup, calls, reply>>
    /\ UNCHANGED <<gateway_vars, resp, clock, building, tport, sends, locks, parsing>>

\* clear_oauth_tokens: the record of the backend is removed under the lock.
clear_oauth_tokens(id) ==
    /\ oauth_store' = MapRemove(oauth_store, id)
    /\ oauth_store' # oauth_store
    /\ UNCHANGED <<servers, connections, clients, task, startup, calls, reply>>
    /\ UNCHANGED <<gateway_vars, resp, mcp_vars>>

\* The store as loaded at startup: a record for the remote backend, with or
\* without one for the other backend.
RevokeInit ==
    /\ servers = [id \in Ids |->
                    [transport |-> TransportOf(id), name |-> NameOf(id),
                     command |-> IF TransportOf(id) = "Stdio" THEN Some("cmd") ELSE None,
                     url |-> IF TransportOf(id) = "Http" THEN Some("http://h/mcp") ELSE None,
                     status |-> "Connecting", last_connected |-> None]]
    /\ connections = EmptyMap
    /\ clients = EmptyMap
    /\ \E held \in {{"h"}, Ids}, k \in StoredTokens :
          oauth_store = [id \in held |->
                            [tokens |-> IF id = "h" THEN Some(k) ELSE None,
                             client_id |-> Some(id)]]
    /\ task = [t \in Tasks |-> IdleTask]
    /\ startup = [pc |-> "done", to_reconnect |-> <<>>, i |-> 0, client |-> None]
    /\ calls = 0
    /\ reply = None
    /\ tool_discovery_enabled = FALSE
    /\ stats = EmptyMap
    /\ req = [r \in Requests |-> IdleRequest]
    /\ reqs = 0
    /\ resp = None
    /\ tool_hashes = EmptyMap
    /\ streams = [tail |-> 0, rx |-> EmptyMap]
    /\ clock \in {1000, 1001}
    /\ resolving = IdleResolve
    /\ building = NoClient
    /\ tport = NoTransport
    /\ sends = [c \in Senders |-> IdleSend]
    /\ locks = NoLocks
    /\ parsing = NoParse

RevokeNext ==
    \/ \E overflow_checks \in BOOLEAN : resolve_access_token("h", overflow_checks)
    \/ try_refresh_token_read
    \/ \E answer \in {None} \cup RefreshAnswers("ref1") : try_refresh_token_http(answer)
    \/ try_refresh_token_write
    \/ \E id \in Ids : clear_oauth_tokens(id)

RevokeSpec == RevokeInit /\ [][RevokeNext]_vars


\* ---------------------------------------------------------------- claims
ActiveStatuses == {"Connected", "Connecting"}
Replied(op, result) ==
    reply # None /\ reply[1].op = op /\ reply[1].result = result

\* C1: connect_server called while the backend is Connecting or Connected
\* returns AlreadyConnected and changes neither the status, the cached
\* tools nor the Connection Registry.
C1_AlreadyConnected ==
    [][\A t \in Tasks, id \in Ids :
          (connect_server_begin(t, id) /\ servers[id].status \in ActiveStatuses)
          => /\ reply' = Reply(t, "connect", id, "AlreadyConnected", "none")
             /\ UNCHANGED <<servers, connections, clients, task>>]_vars

C1_Witness ==
    /\ Replied("connect", "AlreadyConnected")
    /\ servers[reply[1].id].status \in ActiveStatuses

\* A handshake for backend id is in flight in slot t / in the startup routine.
Handshaking(t, id) ==
    task[t].pc \in {"handshake", "oauth_handshake"} /\ task[t].id = id
StartupHandshaking(id) == startup.pc = "handshake" /\ Cur.id = id

\* Number of handshakes in flight for backend id.
InFlight(id) ==
    Cardinality({t \in Tasks : Handshaking(t, id)})
      + (IF StartupHandshaking(id) THEN 1 ELSE 0)

\* The Registry holds a client for id whose transport has not gone away.
Live(id) == id \in DOMAIN clients /\ clients[id].proc \in {"running", "na"}

\* This step inserts a client for id into the Registry.
Inserts(id) ==
    \/ \E t \in Tasks : /\ task[t].id = id
                        /\ finalize_connection_conns(t) \/ start_oauth_flow_conns(t)
    \/ startup.pc = "finalize_conns" /\ Cur.id = id /\ reconnect_on_startup_conns

\* C2: exactly-once connect: at most one handshake per backend is in flight
\* at any time, and no client is inserted into the Registry for an id that
\* already holds a live client.
C2_ExactlyOnce ==
    /\ [](\A id \in Ids : InFlight(id) <= 1)
    /\ [][\A id \in Ids : Inserts(id) => ~Live(id)]_vars

\* C3: every status change follows the per-backend state machine:
\* Connecting only from Disconnected or Error, Connected only from
\* Connecting, Error only from Connecting, Disconnected only from Connected
\* and by a disconnect.  The reset that opens reconnect_on_startup is not
\* counted as a transition of the machine.
C3_StateMachine ==
    [][\A id \in Ids :
          LET a == servers[id].status
              b == servers'[id].status
          IN (a # b /\ ~reconnect_on_startup_reset) =>
               /\ b = "Connecting" => a \in {"Disconnected", "Error"}
               /\ b = "Connected" => a = "Connecting"
               /\ b = "Error" => a = "Connecting"
               /\ b = "Disconnected" =>
                     /\ a = "Connected"
                     /\ \E t \in Tasks : disconnect_server_state(t)]_vars

\* C4: when the handshake or tool discovery of an attempt started by
\* connect_server or reconnect_on_startup fails, the status becomes Error,
\* the attempt ends without setting Connected and without a Registry
\* insert, and connect_server returns the error.
C4_FailureMarksError ==
    [][/\ \A t \in Tasks :
            (/\ task[t].op = "connect" /\ task[t].pc = "handshake"
             /\ task'[t].pc \notin {"handshake", "finalize_state"})
            => /\ servers'[task[t].id].status = "Error"
               /\ clients' = clients
               /\ task'[t] = IdleTask
               /\ reply' # None /\ reply'[1].t = t /\ reply'[1].op = "connect"
               /\ reply'[1].result \in HandshakeErrors(task[t].cfg[1])
       /\ (/\ startup.pc = "handshake"
           /\ startup'.pc \notin {"handshake", "finalize_state"})
          => /\ servers'[Cur.id].status = "Error"
             /\ clients' = clients]_vars

C4_Witness ==
    /\ reply # None /\ reply[1].op = "connect"
    /\ reply[1].result \in {"Transport", "Protocol"}
    /\ servers[reply[1].id].status = "Error"
    /\ reply[1].id \notin DOMAIN clients

\* C5: when an HTTP backend answers 401 during the handshake of
\* connect_server, the backend is left in Error, the oauth-required signal
\* is raised for it, AuthRequired is returned, and the attempt neither
\* sets Connected nor inserts into the Registry.
C5_AuthRequired ==
    [][\A t \in Tasks :
          (/\ task[t].op = "connect" /\ task[t].pc = "handshake"
           /\ reply' # None /\ reply'[1].t = t
           /\ reply'[1].result = "AuthRequired")
          => /\ task[t].cfg[1].transport = "Http"
             /\ servers'[task[t].id].status = "Error"
             /\ reply' = Reply(t, "connect", task[t].id, "AuthRequired", "oauth-required")
             /\ task'[t] = IdleTask
             /\ clients' = clients]_vars

C5_Witness ==
    /\ Replied("connect", "AuthRequired")
    /\ reply[1].signal = "oauth-required"
    /\ servers[reply[1].id].status = "Error"

\* C6: after every successful connection of a backend (connect_server,
\* reconnect_on_startup, the reconnect that ends start_oauth_flow), no other
\* operation being at work on it: the status is Connected, the connection
\* time is recorded, the cached tools are the client's tools/list answer
\* tagged with the backend's id and name, and the Registry holds the client.
C6_SuccessfulConnection ==
    [][\A id \in Ids :
          Inserts(id) =>
             /\ servers'[id].status = "Connected"
             /\ servers'[id].last_connected # None
             /\ id \in DOMAIN clients'
             /\ id \in DOMAIN connections'
             /\ connections'[id] = McpTools(clients'[id].tools, id, servers'[id].name)]_vars

\* C7: disconnect_server on a configured backend, no other operation being
\* at work on it: the client is taken out of the Registry and shut down
\* first, with the status untouched; then the status becomes Disconnected,
\* the cached tools are removed, the Registry still has no client, and Ok is
\* returned.
C7_Disconnect ==
    [][\A t \in Tasks, id \in Ids :
          /\ disconnect_server_begin(t, id) =>
                /\ id \notin DOMAIN clients'
                /\ task'[t].shut = (id \in DOMAIN clients)
                /\ UNCHANGED <<servers, connections>>
          /\ (disconnect_server_state(t) /\ task[t].id = id) =>
                /\ id \notin DOMAIN clients
                /\ id \notin DOMAIN clients'
                /\ id \notin DOMAIN connections'
                /\ servers'[id].status = "Disconnected"
                /\ reply' = Reply(t, "disconnect", id, "Ok", "none")]_vars

C7_Witness ==
    /\ Replied("disconnect", "Ok")
    /\ reply[1].id \in Ids
    /\ servers[reply[1].id].last_connected # None
    /\ servers[reply[1].id].status = "Disconnected"
    /\ reply[1].id \notin DOMAIN clients
    /\ reply[1].id \notin DOMAIN connections

\* Nothing of the program is left to run: every command has returned and
\* the startup routine is over.
Quiescent == (\A t \in Tasks : ~InProgress(t)) /\ startup.pc = "done"

\* C8: the exit of the child of a Connected process backend is followed,
\* with no disconnect request, by the backend becoming Disconnected and its
\* client leaving the Registry: once the program has nothing left to run, no
\* Connected backend holds a client whose child has exited.
C8_ProcessExit ==
    Quiescent =>
       \A id \in Ids :
          ~(/\ id \in DOMAIN clients
            /\ clients[id].proc = "exited"
            /\ servers[id].status = "Connected")

\* C9: connect_server on a process backend with an absent or empty command,
\* or on an HTTP backend with an absent or empty URL, returns
\* ConnectionFailed before the transport is tried, and registers no client.
C9_MissingTarget ==
    [][\A t \in Tasks :
          (/\ task[t].op = "connect" /\ task[t].pc = "resolve"
           /\ Target(task[t].cfg[1]) \in {None, Some("")}
           /\ task'[t] # task[t])
          => /\ reply' = Reply(t, "connect", task[t].id, "ConnectionFailed", "none")
             /\ task'[t] = IdleTask
             /\ clients' = clients]_vars

\* The ids collected in servers_to_reconnect.
ToReconnectIds(rec) == {rec.to_reconnect[i].id : i \in DOMAIN rec.to_reconnect}

\* C10: the first step of the startup routine sets every status to
\* Disconnected and collects exactly the backends that were Connected or
\* Connecting before it; the collection never changes afterwards, and the
\* routine marks Connecting / Connected, and registers a client, only for
\* collected backends.
C10_StartupReset ==
    [][/\ (startup.pc = "start" /\ startup' # startup) =>
             /\ \A id \in Ids : servers'[id].status = "Disconnected"
             /\ ToReconnectIds(startup') =
                   {id \in Ids : servers[id].status \in ActiveStatuses}
       /\ (startup.pc # "start") => startup'.to_reconnect = startup.to_reconnect
       /\ \A id \in Ids :
             (/\ startup.pc # "start" /\ startup' # startup
              /\ \/ /\ servers'[id].status # servers[id].status
                    /\ servers'[id].status \in ActiveStatuses
                 \/ /\ id \in DOMAIN clients'
                    /\ id \notin DOMAIN clients \/ clients'[id] # clients[id])
             => id \in ToReconnectIds(startup)]_vars

C10_Witness ==
    /\ startup.pc = "finalize_conns"
    /\ Len(startup.to_reconnect) = 1
    /\ servers[Cur.id].status = "Connected"

\* A connect_server call on backend id is under way in slot t.
Connecting(t, id) == task[t].op = "connect" /\ task[t].id = id /\ InProgress(t)

\* C11: when reconnect_on_startup races with connect_server calls for the
\* same backend, the two never both run a handshake for it, and no step of
\* the startup routine changes a Connecting / Connected status of a backend
\* on which a connect_server call is under way.
C11_StartupSkipsRaced ==
    /\ [](\A id \in Ids :
            ~(/\ StartupHandshaking(id)
              /\ \E t \in Tasks : Connecting(t, id) /\ task[t].pc = "handshake"))
    /\ [][\A id \in Ids :
            (/\ startup' # startup
             /\ servers[id].status \in ActiveStatuses
             /\ \E t \in Tasks : Connecting(t, id))
            => servers'[id].status = servers[id].status]_vars

\* The POST received in this step: the one answered, or the one a slot has
\* just taken.
Received ==
    IF resp' # None
    THEN [path |-> resp'[1].path, server_id |-> resp'[1].server_id,
          origin |-> resp'[1].origin, id |-> resp'[1].id]
    ELSE LET r == CHOOSE r \in Requests : req'[r].pc # "idle" /\ req[r].pc = "idle"
         IN [path |-> req'[r].post[1].path, server_id |-> req'[r].post[1].server_id,
             origin |-> req'[r].post[1].origin, id |-> req'[r].post[1].id]

\* The gateway state other than the request being answered.
NoSideEffect ==
    /\ UNCHANGED <<servers, connections, clients, stats, tool_hashes, streams>>
    /\ \A r \in Requests : req'[r].pc = "idle"

\* C12: a POST without an id, on a per-backend path or on the discovery
\* path, whatever its method, its backend id and the discovery flag, is
\* answered 202 with an empty body, and nothing else happens: no Registry
\* lookup, no backend call, no statistics record.
C12_NotificationAccepted ==
    [][(reqs' # reqs /\ Received.id = None /\ validate_origin(Received.origin))
          => /\ resp' # None
             /\ resp'[1].status = accepted_response.status
             /\ resp'[1].body = None
             /\ NoSideEffect]_vars

\* The response sent in this step is a JSON-RPC error that names backend id,
\* by its id or by its configured name.
ErrorNames(id) ==
    /\ resp' # None
    /\ resp'[1].body # None
    /\ resp'[1].body[1].kind = "error"
    /\ \E k \in DOMAIN resp'[1].body[1].error.message :
          resp'[1].body[1].error.message[k]
             \in {id} \cup {servers[i].name : i \in {id} \cap DOMAIN servers}

\* Slot r finishes in this step without a backend call or a statistic, and
\* the other slots are left as they are.
AnsweredAtOnce(r) ==
    /\ req'[r].pc = "idle"
    /\ \A u \in Requests \ {r} : req'[u] = req[u]
    /\ UNCHANGED <<servers, connections, clients, stats>>

AnswersNotEnabled ==
    /\ resp' # None
    /\ resp'[1].body # None
    /\ resp'[1].body[1].kind = "error"
    /\ resp'[1].body[1].error =
          [code |-> -32001, message |-> <<"Tool discovery mode is not enabled">>]

\* C14: while the discovery flag is disabled every call to the discovery
\* endpoint (initialize, tools/list, tools/call of any meta-tool, unknown
\* methods) is answered by the same "not enabled" error of code -32001,
\* reaches no backend and records no statistic; once the flag is enabled the
\* same calls are processed.
C14_DiscoveryFlag ==
    [][(reqs' # reqs /\ Received.path = "discovery")
          => IF ~tool_discovery_enabled
             THEN /\ AnswersNotEnabled
                  /\ resp'[1].body[1].id = Received.id
                  /\ NoSideEffect
             ELSE ~AnswersNotEnabled]_vars

\* A call is refused while the flag is disabled.
C14_Witness ==
    /\ ~tool_discovery_enabled
    /\ resp # None
    /\ resp[1].path = "discovery"
    /\ resp[1].body # None
    /\ resp[1].body[1].id # None
    /\ resp[1].body[1].kind = "error"
    /\ resp[1].body[1].error.code = -32001

\* The call of slot r returns c in this step, on either path.
Returned(r, c) ==
    /\ req[r].pc \in {"await", "d_await"}
    /\ \E d \in Durations : \/ proxy_handle_tools_call_returned(r, c, d)
                            \/ discovery_handle_call_tool_returned(r, c, d)

\* The call failed in the transport or the protocol, or the tool flagged an
\* error.
Failed(c) == ~c.ok \/ c.is_error = Some(TRUE)

\* The input schema cached for the tool the call of slot r names, if any.
KnownSchema(r) ==
    IF req[r].server_id \notin DOMAIN connections THEN {}
    ELSE {connections[req[r].server_id][j].input_schema[1] :
            j \in {k \in DOMAIN connections[req[r].server_id] :
                     /\ connections[req[r].server_id][k].name = req[r].tool
                     /\ connections[req[r].server_id][k].input_schema # None}}

\* What the error text of a failed call starts with.
ErrorText(c) ==
    IF ~c.ok THEN <<"Tool call failed: ", c.error>>
    ELSE IF c.content[1].type = "text" THEN <<c.content[1].text[1]>>
    ELSE <<"Tool returned an error">>

\* C16: on the discovery path, a call_tool whose backend call fails in the
\* transport, or whose result carries the error flag, is answered by a tool
\* result with the error flag set whose text is the error text followed by
\* the cached input schema of the tool when it is known; a successful result
\* is returned unchanged.
C16_ErrorWithSchema ==
    [][\A c \in CallResults :
          (req["r1"].pc = "d_await" /\ Returned("r1", c))
          => /\ resp' # None
             /\ resp'[1].status = 200
             /\ resp'[1].body[1].kind = "result"
             /\ resp'[1].body[1].id = req["r1"].post[1].id
             /\ LET result == resp'[1].body[1].result[1]
                    text == result.content[1].text[1]
                    n == Len(ErrorText(c))
                IN IF ~Failed(c)
                   THEN result = [content |-> c.content, isError |-> c.is_error]
                   ELSE /\ result.isError = Some(TRUE)
                        /\ Len(result.content) = 1
                        /\ result.content[1].type = "text"
                        /\ Len(text) >= n
                        /\ SubSeq(text, 1, n) = ErrorText(c)
                        /\ IF KnownSchema("r1") = {}
                           THEN Len(text) = n
                           ELSE /\ Len(text) = n + 4
                                /\ text[n + 2] = req["r1"].tool
                                /\ text[n + 4] \in KnownSchema("r1")]_vars

\* A failed call_tool has been answered with the schema of the tool.
C16_Witness ==
    /\ resp # None
    /\ resp[1].path = "discovery"
    /\ resp[1].body # None
    /\ resp[1].body[1].kind = "result"
    /\ "isError" \in DOMAIN resp[1].body[1].result[1]
    /\ resp[1].body[1].result[1].isError = Some(TRUE)
    /\ Len(resp[1].body[1].result[1].content[1].text[1]) = 6
    /\ resp[1].body[1].result[1].content[1].text[1][1] = "Tool call failed: "

\* The pieces of the text of an error answer: the message of a JSON-RPC
\* error, or the text of a tool result with the error flag.
AnswerText(envelope) ==
    IF envelope.kind = "error" THEN envelope.error.message
    ELSE envelope.result[1].content[1].text[1]

\* C17: a tools/call on a per-backend path that reaches a connected backend
\* and fails there (transport failure or timeout) is answered by a
\* protocol-shaped error with a success HTTP status, never a 5xx, and the
\* error carries the known input schema of the called tool as a hint.
C17_FailureCarriesSchema ==
    [][\A c \in CallResults :
          (req["r1"].pc = "await" /\ ~c.ok /\ Returned("r1", c))
          => /\ resp' # None
             /\ resp'[1].status = 200
             /\ resp'[1].body # None
             /\ \/ resp'[1].body[1].kind = "error"
                \/ resp'[1].body[1].result[1].isError = Some(TRUE)
             /\ KnownSchema("r1") # {}
                => Len(AnswerText(resp'[1].body[1])) > Len(ErrorText(c))]_vars

\* Slot r looks its backend up in the Connection Registry in this step, on
\* either path.
LooksUp(r) ==
    /\ req[r].pc \in {"registry", "d_registry"}
    /\ proxy_handle_tools_call_lookup(r) \/ discovery_handle_call_tool_lookup(r)

\* Statistics of a backend, a tool of it, a client of it, before any call.
StatsOf(store, id) == IF id \in DOMAIN store THEN store[id] ELSE DefaultServerStats
ToolStatsOf(srv, tool) == IF tool \in DOMAIN srv.tools THEN srv.tools[tool] ELSE DefaultToolStats
ClientCallsOf(srv, client) == IF client \in DOMAIN srv.clients THEN srv.clients[client] ELSE 0

\* C18: call_tool of the discovery endpoint and tools/call of the per-backend
\* path treat the Registry and the statistics alike: the lookup of a backend
\* without a client ends both with the same not-connected error and no
\* statistic, a backend id that is not configured ends both with the same
\* not-found error, the lookup of a backend with a client hands both that client,
\* and the return of the backend call records, on both, exactly one call for
\* the backend, the tool and the client, with the error flag set exactly when
\* the transport failed or the tool flagged an error.
C18_SamePath ==
    [][/\ LooksUp("r1")
          => /\ stats' = stats
             /\ IF req["r1"].server_id \in DOMAIN clients
                THEN /\ resp' = None
                     /\ req'["r1"].pc \in {"await", "d_await"}
                     /\ req'["r1"].client = Some(clients[req["r1"].server_id])
                ELSE /\ resp' # None
                     /\ resp'[1].body[1].kind = "error"
                     /\ resp'[1].body[1].error =
                          [code |-> -32602,
                           message |-> <<"Server '", servers[req["r1"].server_id].name,
                                         "' is not connected">>]
       /\ \A id \in CallIds \ DOMAIN servers :
             (\/ /\ req["r1"].pc = "server" /\ req["r1"].server_id = id
                 /\ discovery_handle_call_tool_server("r1")
              \/ /\ reqs' # reqs
                 /\ Received.path = "server" /\ Received.server_id = id
                 /\ Received.id # None /\ validate_origin(Received.origin))
             => /\ stats' = stats
                /\ resp' # None
                /\ resp'[1].body[1].kind = "error"
                /\ resp'[1].body[1].error =
                     [code |-> -32602, message |-> <<"No server found with ID: ", id>>]
       /\ \A c \in CallResults :
             Returned("r1", c)
             => LET id == req["r1"].server_id
                    tool == req["r1"].tool
                    client == req["r1"].post[1].client
                    old == StatsOf(stats, id)
                    new == StatsOf(stats', id)
                    e == IF Failed(c) THEN 1 ELSE 0
                IN /\ \A i \in DOMAIN stats \ {id} : i \in DOMAIN stats' /\ stats'[i] = stats[i]
                   /\ DOMAIN stats' = DOMAIN stats \cup {id}
                   /\ new.total_calls = old.total_calls + 1
                   /\ new.errors = old.errors + e
                   /\ ToolStatsOf(new, tool).total_calls = ToolStatsOf(old, tool).total_calls + 1
                   /\ ToolStatsOf(new, tool).errors = ToolStatsOf(old, tool).errors + e
                   /\ \A t \in DOMAIN old.tools \ {tool} :
                         t \in DOMAIN new.tools /\ new.tools[t] = old.tools[t]
                   /\ ClientCallsOf(new, client) =
                         ClientCallsOf(old, client) + (IF client = "" THEN 0 ELSE 1)
                   /\ Len(new.recent_calls) = Len(old.recent_calls) + 1
                   /\ SubSeq(new.recent_calls, 1, Len(old.recent_calls)) = old.recent_calls
                   /\ LET last == new.recent_calls[Len(new.recent_calls)] IN
                      /\ last.tool = tool
                      /\ last.client = client
                      /\ last.is_error = Failed(c)]_vars

\* A call_tool of the discovery endpoint has been recorded next to an earlier
\* call of the same backend, one of the two with the error flag.
C18_Witness ==
    /\ resp # None
    /\ resp[1].path = "discovery"
    /\ "p" \in DOMAIN stats
    /\ stats["p"].total_calls = 2
    /\ stats["p"].errors = 1

\* Whether every term of the query occurs in the name or the description of
\* a tool, letter case aside, for the queries and the tools in use.
TermsOccur(query, tool) ==
    CASE query = "ping" -> tool.name = "ping"
      [] query = "PING host" -> tool.name = "ping" /\ tool.description = Some("Ping a HOST")
      [] query = "url ping" -> tool.name = "ping" /\ tool.description = Some("probe url")
      [] query = "in" -> tool.name = "ping"
      [] query = " " -> TRUE
      [] query = "host url" -> FALSE

\* The tools of the Connected backends that match, in configuration order.
RECURSIVE Matching(_, _)
Matching(query, i) ==
    IF i > Len(ServerOrder) THEN <<>>
    ELSE LET id == ServerOrder[i] IN
         (IF servers[id].status = "Connected" /\ id \in DOMAIN connections
          THEN SelectSeq(connections[id], LAMBDA tool : TermsOccur(query, tool))
          ELSE <<>>) \o Matching(query, i + 1)

\* C15: discover_tools with a non-empty query returns exactly the tools of
\* the Connected backends in whose name or description every
\* whitespace-separated term of the query occurs, letter case aside, each
\* with its own backend id, backend name and schema, cut to the first 20 in
\* configuration order; two backends that each have a tool "ping" give two
\* matches.
C15_DiscoverTools ==
    [][(req["r1"].pc = "discover" /\ discovery_handle_discover_tools("r1"))
          => LET query == req["r1"].post[1].params[1].arguments.query[1]
                 all == Matching(query, 1)
                 want == IF Len(all) > 20 THEN SubSeq(all, 1, 20) ELSE all
                 text == resp'[1].body[1].result[1].content[1].text[1]
             IN /\ resp'[1].body[1].kind = "result"
                /\ IF want = <<>>
                   THEN text[1] # "["
                   ELSE /\ text[1] = "["
                        /\ Len(text[2]) = Len(want)
                        /\ \A k \in DOMAIN want :
                              /\ text[2][k].server_id = want[k].server_id
                              /\ text[2][k].server_name = want[k].server_name
                              /\ text[2][k].name = want[k].name
                              /\ text[2][k].inputSchema = want[k].input_schema]_vars

\* A search has been cut to 20 matches that span both backends, each "ping"
\* with the schema of its own backend.
C15_Witness ==
    /\ resp # None
    /\ resp[1].body # None
    /\ resp[1].body[1].kind = "result"
    /\ "content" \in DOMAIN resp[1].body[1].result[1]
    /\ LET text == resp[1].body[1].result[1].content[1].text[1] IN
       /\ text[1] = "["
       /\ Len(text) = 3
       /\ "inputSchema" \in DOMAIN text[2][1]
       /\ Len(text[2]) = 20
       /\ text[2][1].server_id # text[2][20].server_id
       /\ text[2][1].name = "ping" /\ text[2][20].name = "ping"
       /\ text[2][1].inputSchema # text[2][20].inputSchema

\* The tool names of two lists are the same, order aside.
SameNames(a, b) ==
    /\ Len(a) = Len(b)
    /\ \A n \in {"echo", "ping"} :
          Cardinality({i \in DOMAIN a : a[i] = n}) = Cardinality({i \in DOMAIN b : b[i] = n})

\* A notification of id is broadcast in this step: every open stream is
\* handed one more value, id.
Broadcast(id) ==
    /\ streams'.tail = streams.tail + 1
    /\ \A sub \in DOMAIN streams.rx :
          streams'.rx[sub].queue = Append(streams.rx[sub].queue, id)

\* C19: an update of a backend's tool list is broadcast exactly when the
\* hash of its sorted tool names differs from the hash of the last update
\* broadcast for that backend, the first update counting as a change; the
\* same names reported again, in any order, broadcast nothing; and a stream
\* opened on one backend id never yields a notification caused by another.
C19_NotifyOnChange ==
    /\ [][\A id \in Ids, new_tools \in ToolLists :
             (calls' # calls /\ notify_if_tools_changed(id, new_tools))
             => IF id \in DOMAIN tool_hashes /\ SameNames(tool_hashes[id], new_tools)
                THEN UNCHANGED <<streams, tool_hashes>>
                ELSE /\ Broadcast(id)
                     /\ id \in DOMAIN tool_hashes'
                     /\ SameNames(tool_hashes'[id], new_tools)]_vars
    /\ [](\A sub \in DOMAIN streams.rx :
             \A k \in DOMAIN streams.rx[sub].events :
                streams.rx[sub].events[k] = streams.rx[sub].server_id)

\* Two updates were reported and one was broadcast; the stream of the
\* updated backend yielded its notification and the stream of the other
\* backend took the same value and yielded nothing.
C19_Witness ==
    /\ calls = 2
    /\ streams.tail = 1
    /\ \E s1 \in DOMAIN streams.rx, s2 \in DOMAIN streams.rx :
          /\ streams.rx[s1].events # <<>>
          /\ streams.rx[s2].server_id \in Ids \ {streams.rx[s1].server_id}
          /\ streams.rx[s2].events = <<>>
          /\ streams.rx[s2].queue = <<>>

\* C20: in start_oauth_flow, a callback whose state differs from the nonce
\* generated for the flow makes the flow fail with an OAuth error; no token
\* exchange request is made, no OAuthRecord is created or changed for the
\* backend, and the status and the Registry entry of the backend stay as
\* they are.
C20_StateMismatch ==
    [][\A t \in Tasks, state \in CallbackStates \ {state_nonce} :
          (task[t].pc = "authorize" /\ start_oauth_flow_callback(t, state))
          => /\ reply' = Reply(t, "oauth", task[t].id, "OAuth state mismatch", "none")
             /\ task'[t].pc = "idle"
             /\ \A u \in Tasks \ {t} : task'[u] = task[u]
             /\ UNCHANGED <<oauth_store, servers, clients, connections>>]_vars

\* A flow has failed on the state of its callback for a backend that holds
\* the record of an earlier authorization.
C20_Witness ==
    /\ Replied("oauth", "OAuth state mismatch")
    /\ reply[1].id \in DOMAIN oauth_store

\* Slot t runs start_oauth_flow and is past the code exchange.
Exchanged(t) ==
    /\ task[t].op = "oauth"
    /\ task[t].pc \in {"oauth_reconnect", "oauth_handshake", "oauth_state", "oauth_conns"}

\* C21: in start_oauth_flow, no other operation being at work on the
\* backend: after a successful code exchange the OAuthRecord is stored
\* before the reconnect is attempted and stays stored whatever the reconnect
\* ends with; the flow returns Ok exactly when the reconnect with the new
\* access token succeeded, and then the backend is Connected with its client
\* in the Registry; otherwise it returns the error of the connect and the
\* backend is in Error.
C21_StoreThenReconnect ==
    /\ [](\A t \in Tasks : Exchanged(t) => task[t].id \in DOMAIN oauth_store)
    /\ [][\A t \in Tasks :
             (Exchanged(t) /\ task'[t] # task[t])
             => /\ oauth_store' = oauth_store
                /\ task'[t].pc = "idle"
                   => IF task[t].pc = "oauth_conns"
                      THEN /\ reply'[1].result = "Ok"
                           /\ servers'[task[t].id].status = "Connected"
                           /\ task[t].id \in DOMAIN clients'
                           /\ clients'[task[t].id] = task[t].client[1]
                      ELSE /\ task[t].pc = "oauth_handshake"
                           /\ reply'[1].result \in HandshakeErrors(task[t].cfg[1])
                           /\ servers'[task[t].id].status = "Error"]_vars

\* An authorization flow has returned Ok: the record is stored, the backend
\* is Connected and its client is registered.
C21_Witness ==
    /\ Replied("oauth", "Ok")
    /\ reply[1].id \in DOMAIN oauth_store
    /\ servers[reply[1].id].status = "Connected"
    /\ reply[1].id \in DOMAIN clients

\* The tokens the store holds for the remote backend, if any.
HasTokens ==
    IF "h" \notin DOMAIN oauth_store THEN FALSE ELSE oauth_store["h"].tokens # None

Cached == oauth_store["h"].tokens[1]

\* Expired as the contract words it: an expiry was provided and the clock
\* is within 60 seconds of, or past, obtained_at + expires_in.
TrulyExpired(tokens) ==
    /\ tokens.expires_in # None
    /\ clock + 60 >= tokens.obtained_at + tokens.expires_in[1]

\* resolve_access_token runs up to its return or its refresh.
Resolves == resolving.pc = "idle" /\ resolving'.pc # "idle"

\* C22: token resolution before an HTTP connect: without record or tokens
\* no token is used; an unexpired cached token is used unchanged, without
\* refresh; an expired token with a refresh token gives exactly one refresh,
\* whose new access token is used on success and whose failure lets the
\* connect proceed without token; an expired token without refresh token
\* lets the connect proceed without token.
C22_TokenResolution ==
    [][/\ (Resolves /\ ~HasTokens)
          => resolving' = [IdleResolve EXCEPT !.pc = "done", !.id = "h"]
       /\ (Resolves /\ HasTokens)
          => IF ~TrulyExpired(Cached)
             THEN resolving' = [IdleResolve EXCEPT !.pc = "done", !.id = "h",
                                   !.token = Some(Cached.access_token)]
             ELSE IF Cached.refresh_token # None
             THEN resolving' = [IdleResolve EXCEPT !.pc = "refresh", !.id = "h"]
             ELSE resolving' = [IdleResolve EXCEPT !.pc = "done", !.id = "h"]
       /\ (resolving.pc = "refresh" /\ resolving'.pc # "refresh")
          => /\ resolving'.pc = "done"
             /\ resolving'.refreshes = 1
             /\ \/ resolving'.token = None /\ oauth_store' = oauth_store
                \/ /\ oauth_store'["h"].tokens # None
                   /\ resolving'.token = Some(oauth_store'["h"].tokens[1].access_token)
                   /\ resolving'.token # Some(Cached.access_token)]_vars

\* C23: is_token_expired is true exactly when an expiry was provided and
\* the clock is within 60 seconds of or past obtained_at + expires_in, for
\* all values of obtained_at, expires_in and the clock.
C23_ExpiryBoundary ==
    [][(Resolves /\ HasTokens)
       => /\ resolving'.pc # "panicked"
          /\ is_token_expired(Cached, clock) <=> TrulyExpired(Cached)]_vars

\* The messages of a complete handshake, in order.
HandshakeMessages == <<"initialize", "notifications/initialized", "tools/list">>

\* C24: client construction over either transport sends the initialize
\* request, then the initialized notification (only once the initialize
\* response was received and parsed), then the tools/list request; when any
\* of the three fails no client is returned and none is registered; every
\* client that is returned has the capabilities and info of the server
\* stored and holds exactly the tools of the tools/list result.
C24_Handshake ==
    /\ [](/\ Len(building.sent) <= 3
          /\ building.sent = SubSeq(HandshakeMessages, 1, Len(building.sent))
          /\ Len(building.sent) >= 2
             => /\ building.server_capabilities = Some("caps")
                /\ building.server_info = Some("info"))
    /\ [][/\ \A t \in Tasks :
               (task[t].pc = "handshake" /\ task'[t].pc # "handshake")
               => IF task'[t].pc = "finalize_state"
                  THEN /\ building.pc = "built"
                       /\ building.sent = HandshakeMessages
                       /\ building.server_capabilities # None
                       /\ building.server_info # None
                       /\ task'[t].client # None
                       /\ task'[t].client[1].tools = building.tools
                  ELSE /\ building.pc = "failed"
                       /\ task'[t] = IdleTask
                       /\ reply'[1].result = building.err[1]
                       /\ clients' = clients
          /\ (building.pc = "discover_tools_response" /\ building'.pc = "built")
             => \E tools \in ListAnswers :
                   /\ discover_tools("t1", [err |-> None,
                         result |-> Some([parses |-> TRUE, value |-> tools])])
                   /\ building'.tools = tools
          /\ \A id \in DOMAIN clients' :
                (id \notin DOMAIN clients \/ clients'[id] # clients[id])
                => /\ building.pc = "returned"
                   /\ clients'[id].tools = building.tools]_vars

\* A client was built, returned and registered with the tools it listed.
C24_Witness ==
    /\ building.pc = "returned"
    /\ building.sent = HandshakeMessages
    /\ "p" \in DOMAIN clients
    /\ clients["p"].tools = building.tools
    /\ Len(building.tools) = 2

\* C25: calling shutdown on a process-backed client closes the input
\* channel of the child (after which the child is killed); calling it a
\* second time changes nothing.
C25_Shutdown ==
    /\ [](tport.owner = "shutdown" => tport.stdin_tx = "dropped")
    /\ [][(tport.owner = "shutdown" /\ shutdown) => UNCHANGED tport]_vars

\* C28: the pending entry of a request is inserted before the request is
\* sent and removed exactly once: whenever send_request has returned, for
\* whatever reason, the pending table holds no entry for the id of that
\* request.
C28_PendingEntry ==
    /\ [](\A c \in Senders : sends[c].pc = "done" => sends[c].id \notin tport.pending)
    /\ [][/\ \A c \in Senders :
               (sends[c].pc = "idle" /\ sends'[c].pc # "idle")
               => /\ sends'[c].id \notin tport.pending
                  /\ sends'[c].id \in tport'.pending
                  /\ tport'.queued = tport.queued
          /\ tport'.pending \ tport.pending \subseteq {tport.next_id}]_vars

\* The error-classified lines among the first n diagnostic lines, oldest
\* first.
RECURSIVE ErrorLines(_)
ErrorLines(n) ==
    IF n = 0 THEN <<>>
    ELSE IF detect_log_level(StderrLine(n)) = "error"
    THEN Append(ErrorLines(n - 1), StderrLine(n))
    ELSE ErrorLines(n - 1)

\* The most recent k elements of a sequence.
Recent(seq, k) ==
    IF Len(seq) <= k THEN seq ELSE SubSeq(seq, Len(seq) - k + 1, Len(seq))

\* C30: on a process transport, in every interleaving of send_request with
\* the reader handling the termination of the child, a request outstanding
\* at that point is failed by it, not by its timeout, and its error text is
\* the retained error-classified diagnostic lines (the most recent 10 at
\* most, oldest dropped first) when there are any.
C30_ExitFailsPending ==
    /\ [](tport.recent_stderr = Recent(ErrorLines(tport.stderr_seen), 10))
    /\ [][/\ (tport.reader = "running" /\ tport'.reader = "ended")
             => \A c \in Senders :
                   sends[c].rx = "waiting" => sends'[c].rx = "dropped"
          /\ \A c \in Senders :
                (sends[c].rx = "dropped" /\ sends'[c] # sends[c])
                => \/ sends'[c] = [sends[c] EXCEPT !.pc = "wait"]
                   \/ /\ sends'[c].pc = "done"
                      /\ sends'[c].result =
                            Some([kind |-> "Transport",
                                  text |-> IF ErrorLines(tport.stderr_seen) = <<>>
                                           THEN <<[n |-> 0, words |->
                                                    {"Server process exited unexpectedly"}]>>
                                           ELSE Recent(ErrorLines(tport.stderr_seen), 10)])]_vars

\* A request was failed by the termination of the child, after more than
\* ten error lines: the oldest are gone.
C30_Witness ==
    \E c \in Senders :
       /\ sends[c].pc = "wait"
       /\ sends[c].rx = "dropped"
       /\ Len(tport.recent_stderr) = 10
       /\ tport.recent_stderr[1].n > 1

\* Status, cached tools and Registry client of every backend but a are
\* what they were.
OthersUntouched(a) ==
    \A b \in Ids \ {a} :
       /\ servers'[b].status = servers[b].status
       /\ (b \in DOMAIN connections') = (b \in DOMAIN connections)
       /\ b \in DOMAIN connections => connections'[b] = connections[b]
       /\ (b \in DOMAIN clients') = (b \in DOMAIN clients)
       /\ b \in DOMAIN clients => clients'[b] = clients[b]

\* C26: a connect failure, an authorization failure, a disconnect or a
\* process exit of backend A leaves the status, the cached tools and the
\* Registry client of every other backend B unchanged.
C26_OtherBackends ==
    [][/\ \A t \in Tasks :
            (\/ connect_server_failed(t)
             \/ start_oauth_flow_failed(t)
             \/ disconnect_server_state(t))
            => OthersUntouched(task[t].id)
       /\ \A a \in Ids :
            (\/ \E t \in Tasks : disconnect_server_begin(t, a)
             \/ child_exit(a))
            => OthersUntouched(a)
       /\ reconnect_on_startup_failed
          => OthersUntouched(Cur.id)]_vars

\* The remote backend was refused for want of authorization while the
\* process backend stays Connected with its tools and its client.
C26_Witness ==
    /\ Replied("connect", "AuthRequired")
    /\ servers["h"].status = "Error"
    /\ servers["p"].status = "Connected"
    /\ "p" \in DOMAIN connections
    /\ "p" \in DOMAIN clients

\* The program positions inside a block that holds the Registry lock.
InRegistryBlock(who) ==
    \/ who \in Requests /\ req[who].pc = "registry_locked"
    \/ who \in Tasks /\ task[who].pc \in {"dc_locked", "finalize_conns_locked"}

Answered(c) == sends[c].rx \in {"result", "error", "closed"}

\* C29: on a legacy event-stream transport, whatever the interleaving of
\* the callers, the reader and the timeouts: the channel of a request is
\* used at most once, and a response once delivered is what the accepted
\* request returns, a timeout being returned only by a request that no
\* response reached; a request is answered only by an event whose id is
\* its own id, or by the end of the stream; an event whose id is no key of
\* the pending table changes nothing.
C29_CompletedOnce ==
    [][/\ \A c \in Senders :
            /\ Answered(c)
               => \/ sends'[c] = sends[c]
                  \/ sends'[c] = [sends[c] EXCEPT !.pc = "wait"]
                  \/ /\ sends'[c].pc = "done" /\ sends'[c].rx = "none"
                     /\ sends[c].pc = "wait"
                        => sends'[c].result[1].kind
                              = IF sends[c].rx = "result" THEN "Ok" ELSE "Protocol"
            /\ sends[c].pc = "timeout"
               => \/ sends'[c] = sends[c]
                  \/ /\ sends'[c].pc = "done"
                     /\ sends'[c].result[1].kind = "Transport"
                     /\ u64_to_string(sends[c].id) \notin {e.key : e \in tport'.pending}
            /\ (sends[c].pc = "wait" /\ sends'[c].pc = "timeout") => ~Answered(c)
       /\ \A event_type \in {"", "message", "endpoint"}, id \in EventIds,
             outcome \in {"result", "error"} :
            sse_reader(event_type, id, outcome)
            => /\ \A c \in Senders :
                    sends'[c] # sends[c]
                    => /\ id_str(id) = Some(u64_to_string(sends[c].id))
                       /\ sends[c].rx = "waiting"
                       /\ sends'[c] = [sends[c] EXCEPT !.rx = outcome,
                                                       !.got = sends[c].id]
               /\ (id_str(id) = None \/ id_str(id)[1] \notin PendingKeys)
                  => UNCHANGED <<tport, sends>>]_vars

\* One caller was answered by the event carrying its id while the other,
\* never answered, timed out; the pending table is empty, so that a later
\* event with either id finds no entry.
C29_Witness ==
    /\ tport.kind = "sse"
    /\ sends["c1"].pc = "done" /\ sends["c1"].result[1].kind = "Ok"
    /\ sends["c2"].pc = "done" /\ sends["c2"].result[1].kind = "Transport"
    /\ sends["c2"].got = 0 /\ sends["c2"].id # 0
    /\ tport.pending = {}
    /\ tport.reader = "running"

\* The message of the error caller c returned.
Message(c) == sends[c].result[1].text[1].words

\* C31: on a legacy event-stream transport, the end-of-stream cleanup of
\* the reader empties the pending table and fails every call in flight: a
\* call whose POST was accepted returns the stream-closed error without its
\* timeout having to fire.
C31_StreamClosed ==
    [][/\ \A id \in EventIds, outcome \in {"result", "error"} :
            sse_reader("closed", id, outcome)
            => /\ tport'.pending = {}
               /\ \A c \in Senders :
                     (\E e \in tport.pending : e.tx = sends[c].id)
                        /\ sends[c].rx = "waiting"
                     => sends'[c].rx = "closed"
       /\ \A c \in Senders :
            sends[c].rx = "closed"
            => /\ ENABLED send_request_legacy_sse(c, "200", FALSE)
               /\ (sends[c].pc = "wait" /\ sends'[c].pc # "wait")
                  => /\ sends'[c].pc = "done"
                     /\ Message(c)' = {"-1: SSE stream closed"}]_vars

\* A call in flight when the stream closed has returned the stream-closed
\* error, and the pending table is empty.
C31_Witness ==
    /\ tport.kind = "sse" /\ tport.reader = "ended"
    /\ tport.pending = {}
    /\ \E c \in Senders : /\ sends[c].pc = "done"
                          /\ sends[c].result[1].kind # "Ok"
                          /\ Message(c) = {"-1: SSE stream closed"}

\* The kind of the outcome caller c returned.
Kind(c) == sends[c].result[1].kind

\* C32: each send_request returns exactly one outcome, and its kind follows
\* the taxonomy: a 401 gives AuthRequired; a failed POST, a non-success
\* status, a timeout and a closed event stream give Transport; a JSON-RPC
\* error answer gives Protocol; a result gives Ok.
C32_ErrorTaxonomy ==
    [][\A c \in Senders :
          /\ (sends[c].pc # "done" /\ sends'[c].pc = "done")
             => /\ sends[c].result = None
                /\ sends'[c].result # None
                /\ sends[c].pc = "timeout" => Kind(c)' = "Transport"
                /\ sends[c].pc = "wait"
                   => Kind(c)' = CASE sends[c].rx = "result" -> "Ok"
                                   [] sends[c].rx = "error" -> "Protocol"
                                   [] OTHER -> "Transport"
                /\ \A post \in {"failed", "401", "500"}, timed_out \in BOOLEAN :
                      (sends[c].pc = "send"
                         /\ send_request_legacy_sse(c, post, timed_out))
                      => Kind(c)' = IF post = "401" THEN "AuthRequired"
                                    ELSE "Transport"
          /\ sends[c].pc = "done"
             => sends'[c] = sends[c] \/ sends'[c] = IdleSend]_vars

\* The events of a body: the runs of lines between empty lines, each with
\* its name (of its last "event:" line, "" when it has none) and the
\* payloads of its "data:" lines.
RECURSIVE EventsFrom(_, _, _)
EventsFrom(body, i, lines) ==
    LET names == SelectSeq(lines, LAMBDA l : l.field = "event")
        event == [name |-> IF names = <<>> THEN "" ELSE names[Len(names)].value,
                  data |-> SelectSeq(lines, LAMBDA l : l.field = "data")]
        done == IF lines = <<>> THEN <<>> ELSE <<event>>
    IN  IF i > Len(body) THEN done
        ELSE IF body[i].field = "" THEN done \o EventsFrom(body, i + 1, <<>>)
        ELSE EventsFrom(body, i + 1, Append(lines, body[i]))

\* The events whose data can be the response: unnamed or named "message".
MessageEvents(body) ==
    SelectSeq(EventsFrom(body, 1, <<>>),
              LAMBDA e : e.name \in {"", "message"} /\ e.data # <<>>)

\* C33: in streamable mode the payload taken from an event-stream body is
\* the data of the last event that is unnamed or named "message"; a body
\* without such data is a Transport error.
C33_LastMessageEvent ==
    parsing.pc = "extracted"
    => LET events == MessageEvents(parsing.body)
           out == parsing.out[1]
       IN  IF events = <<>> THEN out.kind = "Transport"
           ELSE /\ out.kind = "Ok"
                /\ \E i \in DOMAIN events[Len(events)].data :
                      out.json = events[Len(events)].data[i].value

\* C34: the recent calls of a backend are never more than 200 and are the
\* most recent min(n, 200) of its n recorded calls, in recording order (the
\* k-th recorded call is the one that took k milliseconds).
C34_RecentCalls ==
    \A id \in DOMAIN stats :
       LET n == stats[id].total_calls
           recent == stats[id].recent_calls
           kept == IF n > MAX_RECENT_CALLS THEN MAX_RECENT_CALLS ELSE n
       IN  /\ Len(recent) <= MAX_RECENT_CALLS
           /\ Len(recent) = kept
           /\ \A i \in 1 .. kept : recent[i].duration_ms = n - kept + i

\* The process backend has recorded 202 calls: the list is full and its
\* oldest entry is the third call.
C34_Witness ==
    /\ "p" \in DOMAIN stats
    /\ stats["p"].total_calls = MAX_RECENT_CALLS + 2
    /\ Len(stats["p"].recent_calls) = MAX_RECENT_CALLS
    /\ stats["p"].recent_calls[1].duration_ms = 3

\* The sum of f over the keys in S.
RECURSIVE SumOver(_, _)
SumOver(f, S) ==
    IF S = {} THEN 0
    ELSE LET k == CHOOSE x \in S : TRUE IN f[k] + SumOver(f, S \ {k})

\* C40: for every backend the total calls, errors and cumulative duration
\* equal the sums over its tools, errors never exceed total calls, and the
\* per-client counts sum to no more than total calls.
C40_Aggregates ==
    \A id \in DOMAIN stats :
       LET srv == stats[id]
           tools == DOMAIN srv.tools
       IN  /\ srv.total_calls
                = SumOver([t \in tools |-> srv.tools[t].total_calls], tools)
           /\ srv.errors = SumOver([t \in tools |-> srv.tools[t].errors], tools)
           /\ srv.total_duration_ms
                = SumOver([t \in tools |-> srv.tools[t].total_duration_ms], tools)
           /\ srv.errors <= srv.total_calls
           /\ \A t \in tools : srv.tools[t].errors <= srv.tools[t].total_calls
           /\ SumOver(srv.clients, DOMAIN srv.clients) <= srv.total_calls

\* A call of each backend was recorded, the failed one of the remote
\* backend under a client name, and the statistics of the process backend
\* were reset afterwards.
C40_Witness ==
    /\ reqs = MaxRecorded
    /\ "p" \notin DOMAIN stats
    /\ "h" \in DOMAIN stats
    /\ stats["h"].total_calls = 1
    /\ stats["h"].errors = 1
    /\ SumOver(stats["h"].clients, DOMAIN stats["h"].clients) = 1

\* C35: whenever no command and no startup reconnect is in progress, the
\* three views of a backend agree: the Registry holds a client for an id
\* exactly when the id is a configured backend whose status is Connected,
\* and exactly when tools are cached for the id.
C35_ViewsAgree ==
    Quiescent =>
       \A id \in CallIds :
          /\ (id \in DOMAIN clients)
                <=> (id \in DOMAIN servers /\ servers[id].status = "Connected")
          /\ (id \in DOMAIN clients) <=> (id \in DOMAIN connections)

\* C36: Connecting is never a resting state: when a connect_server that set
\* the status to Connecting returns, and when reconnect_on_startup moves on
\* from a backend it set to Connecting, the status of that backend is
\* Connected or Error (no other operation working on the backend meanwhile).
C36_ConnectingNotResting ==
    [][/\ \A t \in Tasks :
            (task[t].op = "connect" /\ InProgress(t) /\ task'[t].pc = "idle")
            => servers'[task[t].id].status \in {"Connected", "Error"}
       /\ (/\ startup.pc \in {"resolve", "handshake", "finalize_state", "finalize_conns"}
           /\ startup'.pc \in {"next", "done"})
          => servers'[Cur.id].status \in {"Connected", "Error"}]_vars

\* C37: the reconnect at the end of start_oauth_flow respects the
\* duplicate-connection rule: it is not started while the backend is
\* Connecting or Connected, and it never inserts its client over a live
\* one held in the Registry.
C37_OAuthReconnectRule ==
    [][\A t \in Tasks :
          /\ start_oauth_flow_reconnect(t)
             => (task[t].id \in DOMAIN servers
                   => ~IsActive(servers[task[t].id].status))
          /\ start_oauth_flow_conns(t) => task[t].id \notin DOMAIN clients]_vars

\* The events the reader has been handed: those it dispatched and those
\* complete in its buffer.
Handed == parsing.events \o dispatch_sse_text(parsing.buf, <<>>).events

\* C38: whatever the chunking of the stream, once all of it has arrived the
\* POST target is the complete data of the endpoint event resolved against
\* the origin of the GET URL, and the events after the endpoint event have
\* been handed to the reader once each, in order.
C38_ChunkingIndependent ==
    (parsing.pc = "reading" /\ parsing.chunks = <<>>)
    => /\ parsing.post_url = Some(<<"http://h", "/", "a">>)
       /\ Handed = <<<<"r1">>, <<"r2">>>>

\* C39: a refresh never re-creates a revoked record: a backend without a
\* record in the store stays without one through every step of a refresh,
\* clear_oauth_tokens leaves the store without a record for its backend,
\* the reading and the awaiting step of a refresh leave the store alone,
\* and the writing step keeps the set of records, every other record and
\* every other field, and stores the new tokens only in a record still held.
C39_RefreshNeverRecreates ==
    [][/\ \A id \in Ids :
             /\ id \notin DOMAIN oauth_store => id \notin DOMAIN oauth_store'
             /\ clear_oauth_tokens(id) => id \notin DOMAIN oauth_store'
       /\ (resolving.pc \in {"refresh", "http"} /\ resolving' # resolving)
             => oauth_store' = oauth_store
       /\ (resolving.pc = "write" /\ resolving'.pc = "done")
             => /\ DOMAIN oauth_store' = DOMAIN oauth_store
                /\ \A id \in DOMAIN oauth_store :
                      /\ id # resolving.id => oauth_store'[id] = oauth_store[id]
                      /\ oauth_store'[id].client_id = oauth_store[id].client_id
                /\ resolving.id \in DOMAIN oauth_store
                      => oauth_store'[resolving.id].tokens = resolving.new_tokens]_vars

\* A refresh that read the record, got new tokens, and found the record
\* cleared when it came to write.
C39_Witness ==
    /\ "wrote" \in DOMAIN resolving
    /\ resolving.pc = "done"
    /\ resolving.token # None
    /\ ~resolving.wrote
    /\ "h" \notin DOMAIN oauth_store

====
